---- MODULE Spec2Model ----
(***************************************************************************)
(* Saga / FSM orchestration engine of the code-generation system.          *)
(*                                                                         *)
(*   MainSagaWorkflow  (orchestrator/workflows/main_workflow.py)           *)
(*   AgentFSMWorkflow  (orchestrator/workflows/agent_workflow.py)          *)
(*   activities        (orchestrator/activities.py)                        *)
(*                                                                         *)
(* Every workflow is a coroutine: an action of the model is the code that  *)
(* runs between two suspension points (awaits).  The two agents and the    *)
(* saga interleave at these points.  Activities and timers are served by   *)
(* the environment, whose answers are drawn from small sets.               *)
(*                                                                         *)
(* Readings of the engine the workflows run on:                            *)
(*  - awaiting a child handle (in the gather of line 110, or by            *)
(*    `await handle.result()`) suspends until the child workflow has       *)
(*    ended, then yields its return value or raises ChildWorkflowFailure;  *)
(*  - an activity is issued where the workflow calls it (lines 142, 160 of *)
(*    main_workflow.py; lines 103-125 of agent_workflow.py);               *)
(*  - an activity without a RetryPolicy is retried without limit;          *)
(*  - the list `compensations` of line 132 starts empty;                   *)
(*  - when a workflow is terminated, the engine ends at once every open    *)
(*    child it started with ParentClosePolicy.TERMINATE;                   *)
(*  - a query is answered from the workflow's fields at any moment, also   *)
(*    after the workflow has ended; a query forwarded to a child either    *)
(*    yields the child's answer or raises.                                 *)
(***************************************************************************)
EXTENDS Integers, Sequences, FiniteSets, TLC

(* ---------------------------------------------------------------------- *)
(* Bounds and program constants                                            *)
(* ---------------------------------------------------------------------- *)

\* largest max_iterations a request carries in the two-agent specifications
MaxIter == 2

\* most runs of the cleanup activity for one agent
MaxCleanupRuns == 2

\* most entries of a test-bundle archive
MaxEntries == 2

\* InitialRequest.max_iterations: Field(gt=0, le=20)
MaxIterationsLimit == 20

\* generate_code RetryPolicy(maximum_attempts=3)
GenerateMaxAttempts == 3

\* run_tests_in_sandbox RetryPolicy(maximum_attempts=5)
SandboxMaxAttempts == 5

\* run_tests_in_sandbox RetryPolicy(initial_interval=timedelta(seconds=5))
SandboxInitialInterval == 5

\* run_tests_in_sandbox RetryPolicy(backoff_coefficient=2.0)
SandboxBackoffCoefficient == 2

Agents == {"agent_a", "agent_b"}

None == "None"

\* values uuid.uuid4() can return
TraceIds == {"uuid-1", "uuid-2"}

\* texts the code-generation service can return; "" is the empty answer
Codes == {"", "code-x", "code-y"}

(* ---------------------------------------------------------------------- *)
(* Python dictionaries as sets of <<key, value>> pairs                     *)
(* ---------------------------------------------------------------------- *)

\* dict.get(key, default)
Get(d, key, default) ==
    IF \E p \in d : p[1] = key
    THEN (CHOOSE p \in d : p[1] = key)[2]
    ELSE default

\* truth value of a dict: empty is false
Truthy(d) == d # {}

(* ---------------------------------------------------------------------- *)
(* Sandbox reports.  A report is the JSON object the sandbox answered:     *)
(*   keys     the top-level keys present in it                             *)
(*   summary  the dict under "summary" (when the key is present)           *)
(*   error    the value under "error": None, "" or a text                  *)
(* ---------------------------------------------------------------------- *)

RequiredKeys == {"summary", "tests", "stdout", "stderr"}

Report(keys, summary, error) == [keys |-> keys, summary |-> summary, error |-> error]

ReportPassed    == Report(RequiredKeys, {<<"passed", 3>>, <<"failed", 0>>}, None)
ReportFailed    == Report(RequiredKeys, {<<"passed", 3>>, <<"failed", 2>>}, None)
ReportOnlyFail  == Report(RequiredKeys, {<<"failed", 1>>}, None)
ReportError     == Report(RequiredKeys \cup {"error"}, {<<"passed", 3>>, <<"failed", 2>>}, "boom")
ReportNoTests   == Report(RequiredKeys, {<<"passed", 0>>, <<"failed", 0>>}, None)
ReportNoSummary == Report(RequiredKeys \cup {"error"}, {}, "")
ReportEmpty     == Report({}, {}, None)

\* every shape of report parse_test_results tells apart
AllReports == {ReportPassed, ReportFailed, ReportOnlyFail, ReportError,
               ReportNoTests, ReportNoSummary, ReportEmpty}

\* the reports the sandbox answers in the workflow specifications: one per outcome
\* of parse_test_results (PASSED, RETRYABLE_FAILURE, TERMINAL_FAILURE by error,
\* TERMINAL_FAILURE by unknown outcome) and one that does not validate
Reports == {ReportPassed, ReportFailed, ReportError, ReportNoTests, ReportEmpty}

\* test counts a summary can hold under "passed" and "failed"
Counts == {0, 1, 2, 3}

\* the summaries a report can hold: "passed" and "failed" each absent or a count,
\* and the summary the sandbox writes when the test run itself broke
Summaries ==
    {ps \cup fs : ps \in {{}} \cup {{<<"passed", n>>} : n \in Counts},
                  fs \in {{}} \cup {{<<"failed", n>>} : n \in Counts}}
      \cup {{<<"error", "Sandbox execution failed">>}}

\* the sets of required fields a JSON answer can hold: all, or some missing, or none
KeySets == {RequiredKeys, RequiredKeys \ {"stdout"}, RequiredKeys \ {"summary"}, {}}

\* every JSON object response.json() can be: any fields, any summary, any error
SandboxReports ==
    {Report(IF err = None THEN keys ELSE keys \cup {"error"},
            IF "summary" \in keys THEN summary ELSE {},
            err) :
        keys \in KeySets, summary \in Summaries, err \in {None, "", "boom"}}

\* SandboxResponse(**report): pydantic rejects a report with a required field missing
Validates(report) == RequiredKeys \subseteq report.keys

\* test_report_dict.get("summary", {})
SummaryOf(report) == IF "summary" \in report.keys THEN report.summary ELSE {}

\* ParseTestResults that looks at the summary before the error field
ParseTestResultsSummaryFirst(report) ==
    IF Truthy(report.summary) /\ Get(report.summary, "failed", 0) > 0
    THEN <<"RETRYABLE_FAILURE", report>>
    ELSE IF Truthy(report.summary) /\ Get(report.summary, "passed", 0) > 0
    THEN <<"PASSED", report>>
    ELSE IF report.error # None /\ report.error # ""
    THEN <<"TERMINAL_FAILURE", [error |-> report.error]>>
    ELSE <<"TERMINAL_FAILURE", [error |-> "Unknown test outcome", summary |-> report.summary]>>

\* ParseTestResults that counts an absent "failed" as one failed test
ParseTestResultsFailedDefault(report) ==
    IF report.error # None /\ report.error # ""
    THEN <<"TERMINAL_FAILURE", [error |-> report.error]>>
    ELSE IF Truthy(report.summary) /\ Get(report.summary, "failed", 1) > 0
    THEN <<"RETRYABLE_FAILURE", report>>
    ELSE IF Truthy(report.summary) /\ Get(report.summary, "passed", 0) > 0
    THEN <<"PASSED", report>>
    ELSE <<"TERMINAL_FAILURE", [error |-> "Unknown test outcome", summary |-> report.summary]>>

\* ParseTestResults that takes a run without a failed test for a passed one
ParseTestResultsNoFailureIsPass(report) ==
    IF report.error # None /\ report.error # ""
    THEN <<"TERMINAL_FAILURE", [error |-> report.error]>>
    ELSE IF Truthy(report.summary) /\ Get(report.summary, "failed", 0) > 0
    THEN <<"RETRYABLE_FAILURE", report>>
    ELSE <<"PASSED", report>>

\* parse_test_results, for a report that validates: <<outcome, report_details>>
ParseTestResults(report) ==
    IF report.error # None /\ report.error # ""
    THEN <<"TERMINAL_FAILURE", [error |-> report.error]>>
    ELSE IF Truthy(report.summary) /\ Get(report.summary, "failed", 0) > 0
    THEN <<"RETRYABLE_FAILURE", report>>
    ELSE IF Truthy(report.summary) /\ Get(report.summary, "passed", 0) > 0
    THEN <<"PASSED", report>>
    ELSE <<"TERMINAL_FAILURE", [error |-> "Unknown test outcome", summary |-> report.summary]>>

\* how one attempt of parse_test_results ends on any report: the outcome it
\* returns, or the ValidationError line 124 raises
ParseOutcome(report) ==
    IF Validates(report) THEN ParseTestResults(report)[1] ELSE "ValidationError"

\* truth value of Optional[str]: None and "" are false
TruthyStr(s) == s # None /\ s # ""

\* refine_prompt(state)
RefinePrompt(st) ==
    <<"refined", st.initial_request.functional_description, st.faulty_code, st.test_errors>>

\* DelaySeconds with a ceiling of one minute
DelaySecondsCapped(i) == IF 2 ^ i > 60 THEN 60 ELSE 2 ^ i

\* delay_seconds = 2**i
DelaySeconds(i) == 2 ^ i

(* ---------------------------------------------------------------------- *)
(* State                                                                   *)
(* ---------------------------------------------------------------------- *)

VARIABLES
    request,            \* the InitialRequest handed to MainSagaWorkflow.execute
    env,                \* names of the environment variables set on the worker
    \* MainSagaWorkflow
    saga_status,        \* self._status
    trace_id,           \* self._trace_id
    handle,             \* handle[a]: self._agent_a_handle / self._agent_b_handle is set
    saga_pc,            \* where execute is suspended
    cause,              \* e.cause of the ChildWorkflowFailure caught at line 124
    compensations,      \* the list compensations
    comp,               \* comp[a]: state of the cleanup activity issued for a
    comp_calls,         \* comp_calls[a]: cleanup calls issued for a so far
    final_output,       \* the FinalOutput returned by execute
    \* AgentFSMWorkflow, one per agent
    agent_args,         \* the AgentState passed to start_child_workflow
    pc,                 \* where the agent's execute is suspended
    state,              \* self._state
    agent_status,       \* self._status
    last_test_summary,  \* self._last_test_summary
    i,                  \* the loop variable i
    generated_code,     \* the local generated_code
    activity,           \* the activity call the agent awaits, with its arguments
    result,             \* how the child workflow ended: returned code or failure
    gen_calls,          \* generate_code calls issued by the agent
    sandbox_calls,      \* run_tests_in_sandbox calls issued by the agent
    timers,             \* durations of the workflow.sleep timers issued, in order
    failures,           \* agents whose child workflow failed, in order of failure
    \* cleanup_successful_agent_artifacts (activities.py)
    artifacts,          \* agents whose artifacts are in the stores the cleanup is for
    cleanup_result,     \* cleanup_result[a]: how the last cleanup run for a ended
    cleanup_runs,       \* cleanup_runs[a]: runs of the cleanup for a; each logs twice
    \* SandboxManager (sandbox/docker_manager.py)
    sandbox_pc,         \* where _run_sync is
    archive,            \* the entries of the archive test_files_url answers
    workspace,          \* paths written inside the temporary directory
    outside,            \* paths written outside the temporary directory
    temp_dir,           \* the directory tempfile.mkdtemp() made: none, exists, deleted
    container,          \* the local container of _run_sync: None or bound
    containers          \* the container of this run at the Docker daemon

sagaVars == <<saga_status, trace_id, handle, saga_pc, cause, compensations, comp,
              comp_calls, final_output, agent_args>>
agentVars == <<pc, state, agent_status, last_test_summary, i, generated_code,
               activity, result, gen_calls, sandbox_calls, timers, failures>>
cleanupVars == <<artifacts, cleanup_result, cleanup_runs>>
sandboxVars == <<sandbox_pc, archive, workspace, outside, temp_dir, container, containers>>
serviceVars == <<cleanupVars, sandboxVars>>
vars == <<request, env, sagaVars, agentVars, serviceVars>>

\* Optional values: <<>> is None, <<x>> is x
Some(x) == <<x>>

EnvVarOf(a) == IF a = "agent_a" THEN "VLLM_MODEL_A_URL" ELSE "VLLM_MODEL_B_URL"

\* an activity call: attempt is the attempt under way, waits the retry intervals
\* its RetryPolicy names that were waited between the attempts so far
Call(name, args) == [name |-> name, args |-> args, attempt |-> 1, waits |-> <<>>]
NoCall == [name |-> "none", args |-> <<>>, attempt |-> 0, waits |-> <<>>]

\* seconds the engine waits after a failed attempt of run_tests_in_sandbox:
\* initial_interval * backoff_coefficient ** (attempt - 1)
SandboxRetryInterval(attempt) ==
    SandboxInitialInterval * SandboxBackoffCoefficient ^ (attempt - 1)

Running == [kind |-> "running", value |-> None]
Returned(code) == [kind |-> "returned", value |-> code]
Failed(reason) == [kind |-> "failed", value |-> reason]

\* the child workflow was ended by the engine
Terminated == [kind |-> "terminated", value |-> None]

\* AgentState(agent_id=..., model_endpoint_env_var=..., trace_id=..., ...)
AgentState(a, tid, req) ==
    [agent_id |-> a,
     model_endpoint_env_var |-> EnvVarOf(a),
     trace_id |-> tid,
     current_iteration |-> 0,
     max_iterations |-> req.max_iterations,
     initial_request |-> req,
     faulty_code |-> None,
     test_errors |-> <<>>]

InitialRequest(n) ==
    [functional_description |-> "sort a list of integers",
     test_files_url |-> "https://tests.example/bundle.tar.gz",
     max_iterations |-> n]

\* MainSagaWorkflow.__init__ and AgentFSMWorkflow.__init__
Constructed ==
    /\ saga_status = "PENDING"
    /\ trace_id = ""
    /\ handle = [a \in Agents |-> FALSE]
    /\ saga_pc = "execute"
    /\ cause = <<>>
    /\ compensations = <<>>
    /\ comp = [a \in Agents |-> "none"]
    /\ comp_calls = [a \in Agents |-> 0]
    /\ final_output = <<>>
    /\ agent_args = [a \in Agents |-> <<>>]
    /\ pc = [a \in Agents |-> "not_started"]
    /\ state = [a \in Agents |-> <<>>]
    /\ agent_status = [a \in Agents |-> "PENDING"]
    /\ last_test_summary = [a \in Agents |-> {}]
    /\ i = [a \in Agents |-> 0]
    /\ generated_code = [a \in Agents |-> None]
    /\ activity = [a \in Agents |-> NoCall]
    /\ result = [a \in Agents |-> Running]
    /\ gen_calls = [a \in Agents |-> 0]
    /\ sandbox_calls = [a \in Agents |-> 0]
    /\ timers = [a \in Agents |-> <<>>]
    /\ failures = <<>>

\* no cleanup has run and the sandbox serves no request
ServicesIdle ==
    /\ artifacts = {}
    /\ cleanup_result = [a \in Agents |-> "none"]
    /\ cleanup_runs = [a \in Agents |-> 0]
    /\ sandbox_pc = "idle"
    /\ archive = <<>>
    /\ workspace = {}
    /\ outside = {}
    /\ temp_dir = "none"
    /\ container = None
    /\ containers = "none"

Init ==
    /\ request \in {InitialRequest(n) : n \in 1..MaxIter}
    /\ env \in SUBSET {EnvVarOf(a) : a \in Agents}
    /\ Constructed
    /\ ServicesIdle

(* ---------------------------------------------------------------------- *)
(* AgentFSMWorkflow.execute                                                *)
(* ---------------------------------------------------------------------- *)

\* the child workflow of a ends by raising: the parent sees a ChildWorkflowFailure
AgentFails(a, reason) ==
    /\ pc' = [pc EXCEPT ![a] = "failed"]
    /\ result' = [result EXCEPT ![a] = Failed(reason)]
    /\ failures' = Append(failures, a)
    /\ activity' = [activity EXCEPT ![a] = NoCall]

\* CallGenerateCode with the label kept in one attribute shared by both workflows
CallGenerateCodeSharedStatus(a, prompt, st) ==
    /\ agent_status' = [b \in Agents |-> "GENERATING_CODE"]
    /\ activity' = [activity EXCEPT
                      ![a] = Call("generate_code", <<prompt, st.model_endpoint_env_var>>)]
    /\ gen_calls' = [gen_calls EXCEPT ![a] = @ + 1]
    /\ pc' = [pc EXCEPT ![a] = "generate_code"]

\* lines 109-111: self._status = "GENERATING_CODE"; await generate_code(prompt, env var)
CallGenerateCode(a, prompt, st) ==
    /\ agent_status' = [agent_status EXCEPT ![a] = "GENERATING_CODE"]
    /\ activity' = [activity EXCEPT
                      ![a] = Call("generate_code", <<prompt, st.model_endpoint_env_var>>)]
    /\ gen_calls' = [gen_calls EXCEPT ![a] = @ + 1]
    /\ pc' = [pc EXCEPT ![a] = "generate_code"]

\* StartIteration that stores the loop variable itself: current_iteration = i
StartIterationZeroBased(a, idx, st) ==
    LET st1 == [st EXCEPT !.current_iteration = idx] IN
    /\ i' = [i EXCEPT ![a] = idx]
    /\ state' = [state EXCEPT ![a] = Some(st1)]
    /\ IF TruthyStr(st1.faulty_code)
       THEN /\ agent_status' = [agent_status EXCEPT ![a] = "REFINING_PROMPT"]
            /\ activity' = [activity EXCEPT ![a] = Call("refine_prompt", <<st1>>)]
            /\ pc' = [pc EXCEPT ![a] = "refine_prompt"]
            /\ UNCHANGED gen_calls
       ELSE CallGenerateCode(a, st1.initial_request.functional_description, st1)

\* lines 92-111: the head of iteration idx, up to its first await
StartIteration(a, idx, st) ==
    LET st1 == [st EXCEPT !.current_iteration = idx + 1] IN
    /\ i' = [i EXCEPT ![a] = idx]
    /\ state' = [state EXCEPT ![a] = Some(st1)]
    /\ IF TruthyStr(st1.faulty_code)
       THEN /\ agent_status' = [agent_status EXCEPT ![a] = "REFINING_PROMPT"]
            /\ activity' = [activity EXCEPT ![a] = Call("refine_prompt", <<st1>>)]
            /\ pc' = [pc EXCEPT ![a] = "refine_prompt"]
            /\ UNCHANGED gen_calls
       ELSE CallGenerateCode(a, st1.initial_request.functional_description, st1)

\* lines 83-111: the child workflow starts running
AgentStart(a) ==
    /\ pc[a] = "start"
    /\ StartIteration(a, 0, agent_args[a][1])
    /\ UNCHANGED <<serviceVars, request, env, sagaVars, last_test_summary, generated_code, result,
                   sandbox_calls, timers, failures>>

\* lines 103, 107-111: refine_prompt returns the new prompt
RefinePromptDone(a) ==
    /\ pc[a] = "refine_prompt"
    /\ CallGenerateCode(a, RefinePrompt(activity[a].args[1]), state[a][1])
    /\ UNCHANGED <<serviceVars, request, env, sagaVars, state, last_test_summary, i, generated_code,
                   result, sandbox_calls, timers, failures>>

\* activities.py 47-73 and agent_workflow.py 112-120: generate_code returns code
GenerateCodeDone(a) ==
    /\ pc[a] = "generate_code"
    /\ activity[a].args[2] \in env
    /\ \E code \in Codes :
        /\ generated_code' = [generated_code EXCEPT ![a] = code]
        /\ state' = [state EXCEPT ![a] = Some([@[1] EXCEPT !.faulty_code = code])]
        /\ agent_status' = [agent_status EXCEPT ![a] = "TESTING"]
        /\ activity' = [activity EXCEPT ![a] =
              Call("run_tests_in_sandbox",
                   <<code, state[a][1].initial_request.test_files_url,
                     state[a][1].trace_id>>)]
    /\ sandbox_calls' = [sandbox_calls EXCEPT ![a] = @ + 1]
    /\ pc' = [pc EXCEPT ![a] = "run_tests_in_sandbox"]
    /\ UNCHANGED <<serviceVars, request, env, sagaVars, last_test_summary, i, result, gen_calls,
                   timers, failures>>

\* GenerateCodeFails without non_retryable_error_types: ValueError is retried too
GenerateCodeFailsRetriesAll(a) ==
    /\ pc[a] = "generate_code"
    /\ IF activity[a].attempt < GenerateMaxAttempts
       THEN /\ activity' = [activity EXCEPT ![a].attempt = @ + 1]
            /\ UNCHANGED <<pc, result, failures>>
       ELSE /\ AgentFails(a, "generate_code: attempts exhausted")
    /\ UNCHANGED <<serviceVars, request, env, sagaVars, state, agent_status, last_test_summary, i,
                   generated_code, gen_calls, sandbox_calls, timers>>

\* activities.py 47-50, 74-86 and the RetryPolicy of lines 48-55: an attempt of
\* generate_code raises.  ValueError (variable not set) is not retried; any other
\* error is retried until maximum_attempts, and then the agent's await raises.
\* The policy names no interval, so none is recorded.
GenerateCodeFails(a) ==
    /\ pc[a] = "generate_code"
    /\ IF activity[a].args[2] \notin env
       THEN /\ AgentFails(a, "generate_code: ValueError")
       ELSE IF activity[a].attempt < GenerateMaxAttempts
       THEN /\ activity' = [activity EXCEPT ![a].attempt = @ + 1]
            /\ UNCHANGED <<pc, result, failures>>
       ELSE /\ AgentFails(a, "generate_code: attempts exhausted")
    /\ UNCHANGED <<serviceVars, request, env, sagaVars, state, agent_status, last_test_summary, i,
                   generated_code, gen_calls, sandbox_calls, timers>>

\* RunTestsDone without line 124: the label stays TESTING while the report is parsed
RunTestsDoneKeepsLabel(a) ==
    /\ pc[a] = "run_tests_in_sandbox"
    /\ \E report \in Reports :
        /\ last_test_summary' = [last_test_summary EXCEPT ![a] = SummaryOf(report)]
        /\ activity' = [activity EXCEPT ![a] = Call("parse_test_results", <<report>>)]
    /\ pc' = [pc EXCEPT ![a] = "parse_test_results"]
    /\ UNCHANGED <<serviceVars, request, env, sagaVars, state, agent_status, i, generated_code,
                   result, gen_calls, sandbox_calls, timers, failures>>

\* activities.py 93-111 and agent_workflow.py 121-125: the sandbox answers a report
RunTestsDone(a) ==
    /\ pc[a] = "run_tests_in_sandbox"
    /\ \E report \in Reports :
        /\ last_test_summary' = [last_test_summary EXCEPT ![a] = SummaryOf(report)]
        /\ activity' = [activity EXCEPT ![a] = Call("parse_test_results", <<report>>)]
    /\ agent_status' = [agent_status EXCEPT ![a] = "PARSING_RESULTS"]
    /\ pc' = [pc EXCEPT ![a] = "parse_test_results"]
    /\ UNCHANGED <<serviceVars, request, env, sagaVars, state, i, generated_code, result, gen_calls,
                   sandbox_calls, timers, failures>>

\* RunTestsFails that lets maximum_attempts count the retries, not the attempts
RunTestsFailsOneMore(a) ==
    /\ pc[a] = "run_tests_in_sandbox"
    /\ IF activity[a].attempt <= SandboxMaxAttempts
       THEN /\ activity' = [activity EXCEPT
                  ![a].attempt = @ + 1,
                  ![a].waits = Append(@, SandboxRetryInterval(activity[a].attempt))]
            /\ UNCHANGED <<pc, result, failures>>
       ELSE /\ AgentFails(a, "run_tests_in_sandbox: attempts exhausted")
    /\ UNCHANGED <<serviceVars, request, env, sagaVars, state, agent_status, last_test_summary, i,
                   generated_code, gen_calls, sandbox_calls, timers>>

\* activities.py 112-115 and the RetryPolicy of lines 56-64: an attempt of
\* run_tests_in_sandbox raises; retried after the policy's interval until
\* maximum_attempts
RunTestsFails(a) ==
    /\ pc[a] = "run_tests_in_sandbox"
    /\ IF activity[a].attempt < SandboxMaxAttempts
       THEN /\ activity' = [activity EXCEPT
                  ![a].attempt = @ + 1,
                  ![a].waits = Append(@, SandboxRetryInterval(activity[a].attempt))]
            /\ UNCHANGED <<pc, result, failures>>
       ELSE /\ AgentFails(a, "run_tests_in_sandbox: attempts exhausted")
    /\ UNCHANGED <<serviceVars, request, env, sagaVars, state, agent_status, last_test_summary, i,
                   generated_code, gen_calls, sandbox_calls, timers>>

\* activities.py 124: SandboxResponse(**report) raises on a report that does not
\* validate; parse_test_results has no RetryPolicy, so the attempt is retried
\* (unlimited attempts by default) and the agent still awaits
ParseTestResultsRaises(a) ==
    /\ pc[a] = "parse_test_results"
    /\ ~Validates(activity[a].args[1])
    /\ UNCHANGED vars

\* lines 125-154: parse_test_results returns <<outcome, report_details>>
ParseTestResultsDone(a) ==
    /\ pc[a] = "parse_test_results"
    /\ Validates(activity[a].args[1])
    /\ LET parsed == ParseTestResults(activity[a].args[1])
           outcome == parsed[1]
           report_details == parsed[2]
       IN  IF outcome = "PASSED"
           THEN /\ agent_status' = [agent_status EXCEPT ![a] = "SUCCESS"]
                /\ pc' = [pc EXCEPT ![a] = "returned"]
                /\ result' = [result EXCEPT ![a] = Returned(generated_code[a])]
                /\ activity' = [activity EXCEPT ![a] = NoCall]
                /\ UNCHANGED <<state, timers, failures>>
           ELSE IF outcome = "TERMINAL_FAILURE"
           THEN /\ agent_status' = [agent_status EXCEPT ![a] = "FAILED"]
                /\ AgentFails(a, "Unrecoverable error in code or tests.")
                /\ UNCHANGED <<state, timers>>
           ELSE /\ state' = [state EXCEPT
                               ![a] = Some([@[1] EXCEPT !.test_errors = Some(report_details)])]
                /\ timers' = [timers EXCEPT ![a] = Append(@, DelaySeconds(i[a]))]
                /\ activity' = [activity EXCEPT ![a] = NoCall]
                /\ pc' = [pc EXCEPT ![a] = "sleep"]
                /\ UNCHANGED <<agent_status, result, failures>>
    /\ UNCHANGED <<serviceVars, request, env, sagaVars, last_test_summary, i, generated_code,
                   gen_calls, sandbox_calls>>

\* SleepDone with the loop bound off by one: range(max_iterations + 1)
SleepDoneOneMore(a) ==
    /\ pc[a] = "sleep"
    /\ IF i[a] + 1 < state[a][1].max_iterations + 1
       THEN /\ StartIteration(a, i[a] + 1, state[a][1])
            /\ UNCHANGED <<result, failures>>
       ELSE /\ agent_status' = [agent_status EXCEPT ![a] = "FAILED"]
            /\ AgentFails(a, "Max iterations reached.")
            /\ UNCHANGED <<state, i, gen_calls>>
    /\ UNCHANGED <<serviceVars, request, env, sagaVars, last_test_summary, generated_code,
                   sandbox_calls, timers>>

\* lines 154, 91-111 and 156-160: the timer fires; the loop goes on or ends
SleepDone(a) ==
    /\ pc[a] = "sleep"
    /\ IF i[a] + 1 < state[a][1].max_iterations
       THEN /\ StartIteration(a, i[a] + 1, state[a][1])
            /\ UNCHANGED <<result, failures>>
       ELSE /\ agent_status' = [agent_status EXCEPT ![a] = "FAILED"]
            /\ AgentFails(a, "Max iterations reached.")
            /\ UNCHANGED <<state, i, gen_calls>>
    /\ UNCHANGED <<serviceVars, request, env, sagaVars, last_test_summary, generated_code,
                   sandbox_calls, timers>>

(* ---------------------------------------------------------------------- *)
(* MainSagaWorkflow.execute                                                *)
(* ---------------------------------------------------------------------- *)

\* FinalOutput(status=..., message=..., trace_id=..., code_a=..., code_b=...)
FinalOutput(status, message, tid, code_a, code_b) ==
    [status |-> status, message |-> message, trace_id |-> tid,
     code_a |-> code_a, code_b |-> code_b]

\* lines 63-110: trace id, the two AgentStates, the two child workflows, the gather
SagaStart ==
    /\ saga_pc = "execute"
    /\ \E tid \in TraceIds :
        /\ trace_id' = tid
        /\ agent_args' = [a \in Agents |-> Some(AgentState(a, tid, request))]
    /\ saga_status' = "RUNNING"
    /\ handle' = [a \in Agents |-> TRUE]
    /\ pc' = [a \in Agents |-> "start"]
    /\ saga_pc' = "gather"
    /\ UNCHANGED <<serviceVars, request, env, cause, compensations, comp, comp_calls, final_output,
                   state, agent_status, last_test_summary, i, generated_code, activity,
                   result, gen_calls, sandbox_calls, timers, failures>>

\* GatherReturns that is done as soon as one child returned
GatherReturnsAny == \E a \in Agents : result[a].kind = "returned"

\* asyncio.gather(a, b), line 110: done when both children returned
GatherReturns == \A a \in Agents : result[a].kind = "returned"

\* GatherRaises that looks at the failures only once every child has ended, as
\* asyncio.gather(a, b, return_exceptions=True) would
GatherRaisesWhenAllDone ==
    /\ failures # <<>>
    /\ \A a \in Agents : result[a].kind # "running"

\* asyncio.gather(a, b), line 110: raises the failure of the first child that failed
GatherRaises == failures # <<>>

\* SagaSuccess with the two results bound the wrong way round
SagaSuccessSwapped ==
    /\ saga_pc = "gather"
    /\ GatherReturns
    /\ saga_status' = "SUCCESS"
    /\ final_output' = Some(FinalOutput("SUCCESS", "Both agents succeeded.", trace_id,
                                        result["agent_b"].value, result["agent_a"].value))
    /\ saga_pc' = "done"
    /\ UNCHANGED <<serviceVars, request, env, trace_id, handle, cause, compensations, comp, comp_calls,
                   agent_args, agentVars>>

\* lines 110-123: both children returned
SagaSuccess ==
    /\ saga_pc = "gather"
    /\ GatherReturns
    /\ saga_status' = "SUCCESS"
    /\ final_output' = Some(FinalOutput("SUCCESS", "Both agents succeeded.", trace_id,
                                        result["agent_a"].value, result["agent_b"].value))
    /\ saga_pc' = "done"
    /\ UNCHANGED <<serviceVars, request, env, trace_id, handle, cause, compensations, comp, comp_calls,
                   agent_args, agentVars>>

\* SagaChildFailed without line 126: the label stays RUNNING during the rollback
SagaChildFailedKeepsRunning ==
    /\ saga_pc = "gather"
    /\ GatherRaises
    /\ saga_status' = saga_status
    /\ cause' = Some(result[Head(failures)].value)
    /\ compensations' = <<>>
    /\ saga_pc' = "result_agent_a"
    /\ UNCHANGED <<serviceVars, request, env, trace_id, handle, comp, comp_calls, final_output,
                   agent_args, agentVars>>

\* SagaChildFailed that cancels the children still running, as a gather that
\* cancels its other awaitables on the first failure would
SagaChildFailedCancelsRunning ==
    /\ saga_pc = "gather"
    /\ GatherRaises
    /\ saga_status' = "FAILED_AND_ROLLING_BACK"
    /\ cause' = Some(result[Head(failures)].value)
    /\ compensations' = <<>>
    /\ saga_pc' = "result_agent_a"
    /\ LET open == {a \in Agents : result[a].kind = "running"}
       IN  /\ pc' = [a \in Agents |-> IF a \in open THEN "failed" ELSE pc[a]]
           /\ result' = [a \in Agents |->
                           IF a \in open THEN Failed("cancelled") ELSE result[a]]
           /\ activity' = [a \in Agents |-> IF a \in open THEN NoCall ELSE activity[a]]
    /\ UNCHANGED <<serviceVars, request, env, trace_id, handle, comp, comp_calls, final_output,
                   agent_args, state, agent_status, last_test_summary, i, generated_code,
                   gen_calls, sandbox_calls, timers, failures>>

\* SagaChildFailed that reports the failure of the child that failed last
SagaChildFailedLastCause ==
    /\ saga_pc = "gather"
    /\ GatherRaises
    /\ saga_status' = "FAILED_AND_ROLLING_BACK"
    /\ cause' = Some(result[failures[Len(failures)]].value)
    /\ compensations' = <<>>
    /\ saga_pc' = "result_agent_a"
    /\ UNCHANGED <<serviceVars, request, env, trace_id, handle, comp, comp_calls, final_output,
                   agent_args, agentVars>>

\* lines 124-136: the gather raised ChildWorkflowFailure
SagaChildFailed ==
    /\ saga_pc = "gather"
    /\ GatherRaises
    /\ saga_status' = "FAILED_AND_ROLLING_BACK"
    /\ cause' = Some(result[Head(failures)].value)
    /\ compensations' = <<>>
    /\ saga_pc' = "result_agent_a"
    /\ UNCHANGED <<serviceVars, request, env, trace_id, handle, comp, comp_calls, final_output,
                   agent_args, agentVars>>

\* RolledBack that hands the workflow id to both id fields of the FinalOutput
RolledBackWorkflowIdAsTrace ==
    /\ saga_status' = "ROLLED_BACK"
    /\ final_output' = Some(FinalOutput("ROLLED_BACK", cause[1], "workflow-id", None, None))
    /\ saga_pc' = "done"

\* RolledBack that hands over the code of the agents that returned
RolledBackKeepsCode ==
    /\ saga_status' = "ROLLED_BACK"
    /\ final_output' =
          Some(FinalOutput("ROLLED_BACK", cause[1], trace_id,
                           IF result["agent_a"].kind = "returned"
                           THEN result["agent_a"].value ELSE None,
                           IF result["agent_b"].kind = "returned"
                           THEN result["agent_b"].value ELSE None))
    /\ saga_pc' = "done"

\* lines 177-183
RolledBack ==
    /\ saga_status' = "ROLLED_BACK"
    /\ final_output' = Some(FinalOutput("ROLLED_BACK", cause[1], trace_id, None, None))
    /\ saga_pc' = "done"

\* SagaChildResult that issues the cleanup of every child that has ended, the
\* failed ones too
SagaChildResultCleansEvery(a) ==
    /\ saga_pc = "result_" \o a
    /\ handle[a] => result[a].kind # "running"
    /\ LET issue == handle[a]
           comps == IF issue THEN Append(compensations, a) ELSE compensations
       IN  /\ compensations' = comps
           /\ comp' = IF issue THEN [comp EXCEPT ![a] = "issued"] ELSE comp
           /\ comp_calls' = IF issue THEN [comp_calls EXCEPT ![a] = @ + 1] ELSE comp_calls
           /\ IF a = "agent_a"
              THEN /\ saga_pc' = "result_agent_b"
                   /\ UNCHANGED <<saga_status, final_output>>
              ELSE IF comps # <<>>
              THEN /\ saga_pc' = "gather_compensations"
                   /\ UNCHANGED <<saga_status, final_output>>
              ELSE RolledBack
    /\ UNCHANGED <<serviceVars, request, env, trace_id, handle, cause, agent_args, agentVars>>

\* SagaChildResult without the handlers of lines 148 and 166: the failure of the
\* child escapes from execute
SagaChildResultUncaught(a) ==
    /\ saga_pc = "result_" \o a
    /\ handle[a] => result[a].kind # "running"
    /\ LET issue == handle[a] /\ result[a].kind = "returned"
           comps == IF issue THEN Append(compensations, a) ELSE compensations
       IN  /\ compensations' = comps
           /\ comp' = IF issue THEN [comp EXCEPT ![a] = "issued"] ELSE comp
           /\ comp_calls' = IF issue THEN [comp_calls EXCEPT ![a] = @ + 1] ELSE comp_calls
           /\ IF handle[a] /\ result[a].kind = "failed"
              THEN /\ saga_pc' = "raised"
                   /\ UNCHANGED <<saga_status, final_output>>
              ELSE IF a = "agent_a"
              THEN /\ saga_pc' = "result_agent_b"
                   /\ UNCHANGED <<saga_status, final_output>>
              ELSE IF comps # <<>>
              THEN /\ saga_pc' = "gather_compensations"
                   /\ UNCHANGED <<saga_status, final_output>>
              ELSE RolledBack
    /\ UNCHANGED <<serviceVars, request, env, trace_id, handle, cause, agent_args, agentVars>>

\* SagaChildResult with the child's result looked at without awaiting it: a child
\* that is still running is passed over
SagaChildResultNoAwait(a) ==
    /\ saga_pc = "result_" \o a
    /\ LET issue == handle[a] /\ result[a].kind = "returned"
           comps == IF issue THEN Append(compensations, a) ELSE compensations
       IN  /\ compensations' = comps
           /\ comp' = IF issue THEN [comp EXCEPT ![a] = "issued"] ELSE comp
           /\ comp_calls' = IF issue THEN [comp_calls EXCEPT ![a] = @ + 1] ELSE comp_calls
           /\ IF a = "agent_a"
              THEN /\ saga_pc' = "result_agent_b"
                   /\ UNCHANGED <<saga_status, final_output>>
              ELSE IF comps # <<>>
              THEN /\ saga_pc' = "gather_compensations"
                   /\ UNCHANGED <<saga_status, final_output>>
              ELSE RolledBack
    /\ UNCHANGED <<serviceVars, request, env, trace_id, handle, cause, agent_args, agentVars>>

\* lines 133-150 for agent_a, 151-168 for agent_b: await the child's result and
\* issue its cleanup if it returned; after agent_b, lines 170-183
SagaChildResult(a) ==
    /\ saga_pc = "result_" \o a
    /\ handle[a] => result[a].kind # "running"
    /\ LET issue == handle[a] /\ result[a].kind = "returned"
           comps == IF issue THEN Append(compensations, a) ELSE compensations
       IN  /\ compensations' = comps
           /\ comp' = IF issue THEN [comp EXCEPT ![a] = "issued"] ELSE comp
           /\ comp_calls' = IF issue THEN [comp_calls EXCEPT ![a] = @ + 1] ELSE comp_calls
           /\ IF a = "agent_a"
              THEN /\ saga_pc' = "result_agent_b"
                   /\ UNCHANGED <<saga_status, final_output>>
              ELSE IF comps # <<>>
              THEN /\ saga_pc' = "gather_compensations"
                   /\ UNCHANGED <<saga_status, final_output>>
              ELSE RolledBack
    /\ UNCHANGED <<serviceVars, request, env, trace_id, handle, cause, agent_args, agentVars>>

\* activities.py 168-184 under the activity gateway: a cleanup call resolves,
\* with success or with a failure of the call
CompensationResolves(a) ==
    /\ comp[a] = "issued"
    /\ \E outcome \in {"succeeded", "failed"} : comp' = [comp EXCEPT ![a] = outcome]
    /\ UNCHANGED <<serviceVars, request, env, saga_status, trace_id, handle, saga_pc, cause,
                   compensations, comp_calls, final_output, agent_args, agentVars>>

\* GatherCompensationsReturns without return_exceptions=True: a failed cleanup
\* raises out of the gather instead of being collected
GatherCompensationsAllSucceeded ==
    \A k \in 1..Len(compensations) : comp[compensations[k]] = "succeeded"

\* asyncio.gather(*compensations, return_exceptions=True), line 172
GatherCompensationsReturns ==
    \A k \in 1..Len(compensations) : comp[compensations[k]] \in {"succeeded", "failed"}

\* lines 172-183
SagaCompensated ==
    /\ saga_pc = "gather_compensations"
    /\ GatherCompensationsReturns
    /\ RolledBack
    /\ UNCHANGED <<serviceVars, request, env, trace_id, handle, cause, compensations, comp, comp_calls,
                   agent_args, agentVars>>

(* ---------------------------------------------------------------------- *)
(* Specifications                                                          *)
(* ---------------------------------------------------------------------- *)

(* ---------------------------------------------------------------------- *)
(* What a client of the engine can do to a saga                            *)
(* ---------------------------------------------------------------------- *)

\* ParentClosePolicy that leaves the children running
ParentClosePolicyAbandon(a) == "ABANDON"

\* lines 100 and 106 of main_workflow.py: parent_close_policy of the child of a
ParentClosePolicy(a) == "TERMINATE"

\* the saga workflow is open: it has not returned, raised or been terminated
SagaOpen == saga_pc \notin {"done", "raised", "terminated"}

\* the child workflow of a has been started and has not ended
ChildOpen(a) == handle[a] /\ result[a].kind = "running"

\* the saga is terminated from outside while it is open; the engine then ends
\* every open child whose parent-close policy is TERMINATE
SagaTerminated ==
    /\ SagaOpen
    /\ saga_pc' = "terminated"
    /\ LET ended == {a \in Agents : ChildOpen(a) /\ ParentClosePolicy(a) = "TERMINATE"}
       IN  /\ pc' = [a \in Agents |-> IF a \in ended THEN "terminated" ELSE pc[a]]
           /\ result' = [a \in Agents |-> IF a \in ended THEN Terminated ELSE result[a]]
           /\ activity' = [a \in Agents |-> IF a \in ended THEN NoCall ELSE activity[a]]
    /\ UNCHANGED <<serviceVars, request, env, saga_status, trace_id, handle, cause, compensations,
                   comp, comp_calls, final_output, agent_args, state, agent_status,
                   last_test_summary, i, generated_code, gen_calls, sandbox_calls,
                   timers, failures>>

(* ---------------------------------------------------------------------- *)
(* cleanup_successful_agent_artifacts                                      *)
(* ---------------------------------------------------------------------- *)

\* CleanupRuns that deletes the artifacts of a and raises when there are none
CleanupRunsStrictDelete(a) ==
    /\ comp[a] = "issued"
    /\ cleanup_runs[a] < MaxCleanupRuns
    /\ cleanup_runs' = [cleanup_runs EXCEPT ![a] = @ + 1]
    /\ IF a \in artifacts
       THEN /\ artifacts' = artifacts \ {a}
            /\ cleanup_result' = [cleanup_result EXCEPT ![a] = "returned"]
       ELSE /\ artifacts' = artifacts
            /\ cleanup_result' = [cleanup_result EXCEPT ![a] = "raised"]
    /\ UNCHANGED <<sandboxVars, request, env, sagaVars, agentVars>>

\* activities.py 168-184: one run of the activity for a.  The engine runs it for
\* an issued call, and again when it loses a run (worker restart, timeout).  The
\* body writes two log records and returns None; it reaches no store.
CleanupRuns(a) ==
    /\ comp[a] = "issued"
    /\ cleanup_runs[a] < MaxCleanupRuns
    /\ cleanup_runs' = [cleanup_runs EXCEPT ![a] = @ + 1]
    /\ cleanup_result' = [cleanup_result EXCEPT ![a] = "returned"]
    /\ artifacts' = artifacts
    /\ UNCHANGED <<sandboxVars, request, env, sagaVars, agentVars>>

(* ---------------------------------------------------------------------- *)
(* SandboxManager (sandbox/docker_manager.py)                              *)
(* A path is the sequence of its components; "/" as first component makes  *)
(* it absolute and ".." steps to the parent directory.                     *)
(* ---------------------------------------------------------------------- *)

SolutionPath == <<"solution.py">>

\* member names a tar archive can hold
EntryNames ==
    {<<"tests", "test_a.py">>,
     <<"tests", "..", "conftest.py">>,
     <<"..", "evil.py">>,
     <<"tests", "..", "..", "evil.py">>,
     <<"/", "etc", "evil">>}

\* the archives test_files_url can answer: up to MaxEntries members, in order
Archives == UNION {[1..n -> EntryNames] : n \in 0..MaxEntries}

\* where a member name leads when it is joined to the temporary directory:
\* outside tells whether the walk has left that directory, parts is the path
\* below it while it has not
RECURSIVE Walk(_, _, _)
Walk(name, k, at) ==
    IF k > Len(name) THEN at
    ELSE IF name[k] = "/" THEN Walk(name, k + 1, [outside |-> TRUE, parts |-> <<>>])
    ELSE IF name[k] = ".."
    THEN IF at.outside \/ at.parts = <<>>
         THEN Walk(name, k + 1, [outside |-> TRUE, parts |-> <<>>])
         ELSE Walk(name, k + 1, [at EXCEPT !.parts = SubSeq(@, 1, Len(@) - 1)])
    ELSE Walk(name, k + 1, [at EXCEPT !.parts = Append(@, name[k])])

Resolved(name) == Walk(name, 1, [outside |-> FALSE, parts |-> <<>>])

\* the extraction filters tar.extractall(path=path) can run under, by the
\* Python of the build: none before 3.14, "data" from 3.14 on
TarFilters == {"fully_trusted", "data"}

\* the "data" filter drops a leading "/" from the member name
Stripped(name) == IF name # <<>> /\ name[1] = "/" THEN SubSeq(name, 2, Len(name)) ELSE name

\* tar.extractall(path=path), line 177: the members are extracted in order.
\* files holds what has been written so far: inside and outside the directory.
\* Under "data", a member that leads outside raises a TarError and ends the
\* extraction; under no filter it is written where it leads.
RECURSIVE ExtractAll(_, _, _, _)
ExtractAll(tar, k, filter, files) ==
    IF k > Len(tar) THEN [files EXCEPT !.ok = TRUE]
    ELSE IF filter = "data"
    THEN IF Resolved(Stripped(tar[k])).outside
         THEN [files EXCEPT !.ok = FALSE]
         ELSE ExtractAll(tar, k + 1, filter,
                         [files EXCEPT !.inside = @ \cup {Resolved(Stripped(tar[k])).parts}])
    ELSE IF Resolved(tar[k]).outside
         THEN ExtractAll(tar, k + 1, filter, [files EXCEPT !.outside = @ \cup {tar[k]}])
         ELSE ExtractAll(tar, k + 1, filter,
                         [files EXCEPT !.inside = @ \cup {Resolved(tar[k]).parts}])

\* main.py 106-115 and docker_manager.py 96-101: a request arrives, _run_sync
\* makes the temporary directory and is about to prepare it; archive is what the
\* URL of the request will answer
RunSyncStarts ==
    /\ sandbox_pc = "idle"
    /\ sandbox_pc' = "prepare"
    /\ archive' \in Archives
    /\ workspace' = {}
    /\ outside' = {}
    /\ temp_dir' = "exists"
    /\ container' = None
    /\ containers' = "none"
    /\ UNCHANGED <<cleanupVars, request, env, sagaVars, agentVars>>

\* docker_manager.py 168-184: _prepare_environment_sync.  solution.py is written,
\* then the download succeeds or fails, then the archive is extracted.
PrepareEnvironment ==
    /\ sandbox_pc = "prepare"
    /\ \E download \in {"ok", "failed"}, filter \in TarFilters :
         LET start == [inside |-> {SolutionPath}, outside |-> {}, ok |-> TRUE]
             done  == IF download = "ok" THEN ExtractAll(archive, 1, filter, start)
                      ELSE [start EXCEPT !.ok = FALSE]
         IN  /\ workspace' = done.inside
             /\ outside' = done.outside
             /\ sandbox_pc' = IF done.ok THEN "prepared" ELSE "raised"
    /\ UNCHANGED <<archive, temp_dir, container, containers, cleanupVars, request, env,
                   sagaVars, agentVars>>

\* how self.client.containers.run(..., detach=True) can end: it creates the
\* container, starts it and returns it; or the creation raises (no image, daemon
\* error) and nothing exists; or the start raises (command or user not in the
\* image, runtime error) and the container it created is left at the daemon
RunOutcomes == {"returned", "create_raised", "start_raised"}

\* how container.remove(force=True) can end: the container is removed; or it is
\* gone already (NotFound); or the daemon answers another error
RemoveOutcomes == {"removed", "NotFound", "APIError"}

\* docker_manager.py 104-117: the container is asked for.  A raise is caught at
\* line 148 with container still None and goes on to the finally block.
ContainersRun ==
    /\ sandbox_pc = "prepared"
    /\ \E run \in RunOutcomes :
         /\ container' = IF run = "returned" THEN "bound" ELSE None
         /\ containers' = CASE run = "returned" -> "running"
                            [] run = "start_raised" -> "created"
                            [] OTHER -> "none"
         /\ sandbox_pc' = IF run = "returned" THEN "wait" ELSE "finally_raise"
    /\ UNCHANGED <<archive, workspace, outside, temp_dir, cleanupVars, request, env,
                   sagaVars, agentVars>>

\* docker_manager.py 118-159: container.wait returns and report.json is there
\* (return at 135) or is not (raise at 137, caught at 148); or the wait times out
\* (caught at 148) with the container still running
ContainerWaits ==
    /\ sandbox_pc = "wait"
    /\ \E end \in {"report", "no_report", "timeout"} :
         /\ containers' = IF end = "timeout" THEN "running" ELSE "exited"
         /\ workspace' = IF end = "report" THEN workspace \cup {<<"report.json">>}
                         ELSE workspace
         /\ sandbox_pc' = IF end = "report" THEN "finally_return" ELSE "finally_raise"
    /\ UNCHANGED <<archive, outside, temp_dir, container, cleanupVars, request, env,
                   sagaVars, agentVars>>

\* docker_manager.py 160-166, the finally block: the container is removed if the
\* local is bound, NotFound is passed over, any other error of the removal leaves
\* the block before line 166; then shutil.rmtree deletes the directory
RunSyncEnds ==
    /\ sandbox_pc \in {"raised", "finally_return", "finally_raise"}
    /\ \E removal \in RemoveOutcomes :
         IF container # None /\ removal = "APIError"
         THEN /\ sandbox_pc' = "failed"
              /\ UNCHANGED <<containers, temp_dir, workspace>>
         ELSE /\ containers' = IF container # None THEN "removed" ELSE containers
              /\ temp_dir' = "deleted"
              /\ workspace' = {}
              /\ sandbox_pc' = IF sandbox_pc = "finally_return" THEN "returned"
                                ELSE "failed"
    /\ UNCHANGED <<archive, outside, container, cleanupVars, request, env, sagaVars,
                   agentVars>>

AgentStep(a) ==
    \/ AgentStart(a)
    \/ RefinePromptDone(a)
    \/ GenerateCodeDone(a)
    \/ GenerateCodeFails(a)
    \/ RunTestsDone(a)
    \/ RunTestsFails(a)
    \/ ParseTestResultsRaises(a)
    \/ ParseTestResultsDone(a)
    \/ SleepDone(a)

SagaStep ==
    \/ SagaStart
    \/ SagaSuccess
    \/ SagaChildFailed
    \/ \E a \in Agents : SagaChildResult(a)
    \/ \E a \in Agents : CompensationResolves(a)
    \/ SagaCompensated

Next == SagaStep \/ \E a \in Agents : AgentStep(a)

Spec == Init /\ [][Next]_vars

\* AgentFSMWorkflow.get_status that clears the summary it has just reported
AgentGetStatusClearing(a) ==
    /\ last_test_summary' = [last_test_summary EXCEPT ![a] = {}]
    /\ UNCHANGED <<serviceVars, request, env, sagaVars, pc, state, agent_status, i, generated_code,
                   activity, result, gen_calls, sandbox_calls, timers, failures>>

\* agent_workflow.py 162-179: the query handler assigns nothing; what it returns is
\* AgentStatus(a)
AgentGetStatus(a) == UNCHANGED vars

\* the AgentStatus get_status returns for a, lines 165-179
AgentStatus(a) ==
    IF state[a] = <<>>
    THEN [agent_id |-> "N/A", current_iteration |-> 0, max_iterations |-> 0,
          status |-> agent_status[a], last_test_summary |-> {}]
    ELSE [agent_id |-> state[a][1].agent_id,
          current_iteration |-> state[a][1].current_iteration,
          max_iterations |-> state[a][1].max_iterations,
          status |-> agent_status[a],
          last_test_summary |-> last_test_summary[a]]

\* how a query ends: with a value, or by raising
Answered(value) == [outcome |-> "answered", value |-> value]
QueryRaised == [outcome |-> "raised", value |-> <<>>]

\* main_workflow.py 188-205: the snapshot of a in the saga's answer.  ok tells
\* whether the query forwarded to the child of a is answered or raises
ForwardedStatus(a, ok) == IF handle[a] /\ ok THEN Some(AgentStatus(a)) ELSE <<>>

\* MainWorkflowStatus without the handlers of lines 194 and 204: a forwarded query
\* that raises makes get_status raise
MainWorkflowStatusUncaught(oks) ==
    IF \E a \in Agents : handle[a] /\ ~oks[a]
    THEN QueryRaised
    ELSE Answered([status |-> saga_status,
                   agent_status |-> [a \in Agents |-> ForwardedStatus(a, oks[a])]])

\* main_workflow.py 185-211: what the saga's get_status returns; agent_status[a]
\* is the field agent_a_status / agent_b_status
MainWorkflowStatus(oks) ==
    Answered([status |-> saga_status,
              agent_status |-> [a \in Agents |-> ForwardedStatus(a, oks[a])]])

\* main_workflow.py 185-211: the query handler assigns nothing; what it returns is
\* MainWorkflowStatus(oks)
SagaGetStatus == UNCHANGED vars

ClientStep ==
    \/ SagaTerminated
    \/ \E a \in Agents : AgentGetStatus(a)
    \/ SagaGetStatus

NextClient == Next \/ ClientStep

\* the saga and its agents, with a client that may terminate the saga
SpecClient == Init /\ [][NextClient]_vars

\* the saga with the runs of its cleanup activity, over every content of the
\* stores the cleanup is for
InitCleanup ==
    /\ request \in {InitialRequest(n) : n \in 1..MaxIter}
    /\ env \in SUBSET {EnvVarOf(a) : a \in Agents}
    /\ Constructed
    /\ artifacts \in SUBSET Agents
    /\ cleanup_result = [a \in Agents |-> "none"]
    /\ cleanup_runs = [a \in Agents |-> 0]
    /\ sandbox_pc = "idle"
    /\ archive = <<>>
    /\ workspace = {}
    /\ outside = {}
    /\ temp_dir = "none"
    /\ container = None
    /\ containers = "none"

NextCleanup == Next \/ \E a \in Agents : CleanupRuns(a)

SpecCleanup == InitCleanup /\ [][NextCleanup]_vars

NextSandbox ==
    \/ RunSyncStarts
    \/ PrepareEnvironment
    \/ ContainersRun
    \/ ContainerWaits
    \/ RunSyncEnds

\* the sandbox service serving one request
SpecSandbox == Init /\ [][NextSandbox]_vars

\* an AgentFSMWorkflow on its own: the child workflow of agent_a as started by
\* lines 79-101, for every max_iterations an InitialRequest can carry
InitAgent ==
    /\ request \in {InitialRequest(n) : n \in 1..MaxIterationsLimit}
    /\ env \in SUBSET {EnvVarOf("agent_a")}
    /\ saga_status = "RUNNING"
    /\ trace_id \in TraceIds
    /\ handle = [a \in Agents |-> TRUE]
    /\ saga_pc = "gather"
    /\ cause = <<>>
    /\ compensations = <<>>
    /\ comp = [a \in Agents |-> "none"]
    /\ comp_calls = [a \in Agents |-> 0]
    /\ final_output = <<>>
    /\ agent_args = [a \in Agents |-> Some(AgentState(a, trace_id, request))]
    /\ pc = [a \in Agents |-> "start"]
    /\ state = [a \in Agents |-> <<>>]
    /\ agent_status = [a \in Agents |-> "PENDING"]
    /\ last_test_summary = [a \in Agents |-> {}]
    /\ i = [a \in Agents |-> 0]
    /\ generated_code = [a \in Agents |-> None]
    /\ activity = [a \in Agents |-> NoCall]
    /\ result = [a \in Agents |-> Running]
    /\ gen_calls = [a \in Agents |-> 0]
    /\ sandbox_calls = [a \in Agents |-> 0]
    /\ timers = [a \in Agents |-> <<>>]
    /\ failures = <<>>
    /\ ServicesIdle

NextAgent == AgentStep("agent_a")

SpecAgent == InitAgent /\ [][NextAgent]_vars

\* agent_a awaits parse_test_results(report) in its first iteration, after
\* generate_code returned code and the sandbox answered report (lines 92-125)
AwaitsFirstParse(code, report) ==
    /\ state = [a \in Agents |->
                  IF a = "agent_a"
                  THEN Some([agent_args[a][1] EXCEPT !.current_iteration = 1,
                                                     !.faulty_code = code])
                  ELSE <<>>]
    /\ pc = [a \in Agents |-> IF a = "agent_a" THEN "parse_test_results" ELSE "start"]
    /\ agent_status = [a \in Agents |->
                         IF a = "agent_a" THEN "PARSING_RESULTS" ELSE "PENDING"]
    /\ last_test_summary = [a \in Agents |->
                              IF a = "agent_a" THEN SummaryOf(report) ELSE {}]
    /\ generated_code = [a \in Agents |-> IF a = "agent_a" THEN code ELSE None]
    /\ activity = [a \in Agents |->
                     IF a = "agent_a" THEN Call("parse_test_results", <<report>>)
                     ELSE NoCall]
    /\ gen_calls = [a \in Agents |-> IF a = "agent_a" THEN 1 ELSE 0]
    /\ sandbox_calls = [a \in Agents |-> IF a = "agent_a" THEN 1 ELSE 0]

\* the agent of SpecAgent at the point where the sandbox has answered its first
\* report, for every report the sandbox can answer
InitParse ==
    /\ request \in {InitialRequest(n) : n \in 1..MaxIter}
    /\ env = {EnvVarOf("agent_a")}
    /\ saga_status = "RUNNING"
    /\ trace_id \in TraceIds
    /\ handle = [a \in Agents |-> TRUE]
    /\ saga_pc = "gather"
    /\ cause = <<>>
    /\ compensations = <<>>
    /\ comp = [a \in Agents |-> "none"]
    /\ comp_calls = [a \in Agents |-> 0]
    /\ final_output = <<>>
    /\ agent_args = [a \in Agents |-> Some(AgentState(a, trace_id, request))]
    /\ i = [a \in Agents |-> 0]
    /\ result = [a \in Agents |-> Running]
    /\ timers = [a \in Agents |-> <<>>]
    /\ failures = <<>>
    /\ \E code \in Codes, report \in SandboxReports : AwaitsFirstParse(code, report)
    /\ ServicesIdle

\* the steps of agent_a from an awaited activity or timer onwards
NextParse ==
    \/ ParseTestResultsRaises("agent_a")
    \/ ParseTestResultsDone("agent_a")
    \/ SleepDone("agent_a")
    \/ RefinePromptDone("agent_a")
    \/ GenerateCodeDone("agent_a")
    \/ GenerateCodeFails("agent_a")
    \/ RunTestsDone("agent_a")
    \/ RunTestsFails("agent_a")

SpecParse == InitParse /\ [][NextParse]_vars

\* the workflow engine runs every workflow that can make progress, and every
\* activity and timer it was asked for resolves
FairSpec ==
    /\ Spec
    /\ WF_vars(SagaStep)
    /\ \A a \in Agents : WF_vars(AgentStep(a))

\* the agent of SpecAgent under an engine that runs it whenever it can make
\* progress: every activity attempt returns or fails and every timer fires
FairSpecAgent == SpecAgent /\ WF_vars(NextAgent)

(* ---------------------------------------------------------------------- *)
(* Properties                                                              *)
(* ---------------------------------------------------------------------- *)

Succeeded(a) == result[a].kind = "returned"
HasFailed(a) == result[a].kind = "failed"
MaxIterationsReached == "Max iterations reached."

\* C1: whenever the saga status is ROLLED_BACK, exactly one cleanup call has been
\* issued for each agent whose child workflow returned and none for an agent whose
\* child workflow failed (so the calls precede ROLLED_BACK), under every
\* interleaving of the two agents
C1_CompensationPerSucceededAgent ==
    saga_status = "ROLLED_BACK" =>
        \A a \in Agents :
            /\ Succeeded(a) \/ HasFailed(a)
            /\ comp_calls[a] = IF Succeeded(a) THEN 1 ELSE 0

\* agent_a returned, agent_b ran out of iterations, the saga rolled back with one
\* cleanup call, for agent_a
C1_Witness ==
    /\ saga_status = "ROLLED_BACK"
    /\ Succeeded("agent_a")
    /\ result["agent_b"] = Failed(MaxIterationsReached)
    /\ comp_calls = [a \in Agents |-> IF a = "agent_a" THEN 1 ELSE 0]

\* C2: when both child workflows returned, no cleanup call is ever issued, the saga
\* does not enter the rollback path, and the FinalOutput it returns has status
\* SUCCESS with code_a the code agent_a returned and code_b the code agent_b returned
C2_BothSucceededGivesSuccess ==
    (\A a \in Agents : Succeeded(a)) =>
        /\ \A a \in Agents : comp_calls[a] = 0 /\ comp[a] = "none"
        /\ saga_status \in {"RUNNING", "SUCCESS"}
        /\ saga_pc \in {"gather", "done"}
        /\ saga_pc = "gather" => ENABLED SagaSuccess
        /\ saga_pc = "done" =>
            /\ saga_status = "SUCCESS"
            /\ final_output # <<>>
            /\ final_output[1].status = "SUCCESS"
            /\ final_output[1].code_a = generated_code["agent_a"]
            /\ final_output[1].code_b = generated_code["agent_b"]

\* the saga returned SUCCESS with two different codes
C2_Witness ==
    /\ saga_pc = "done"
    /\ \A a \in Agents : Succeeded(a)
    /\ final_output # <<>>
    /\ final_output[1].code_a = "code-x"
    /\ final_output[1].code_b = "code-y"

\* C3: the saga status, and the status of a returned FinalOutput, is SUCCESS only
\* if both child workflows returned with their phase label at SUCCESS; it is never
\* SUCCESS once a child workflow has failed
C3_SuccessOnlyIfBothSucceeded ==
    (saga_status = "SUCCESS" \/ (final_output # <<>> /\ final_output[1].status = "SUCCESS")) =>
        /\ \A a \in Agents : Succeeded(a) /\ agent_status[a] = "SUCCESS"
        /\ failures = <<>>

\* the saga status is SUCCESS
C3_Witness ==
    /\ saga_status = "SUCCESS"
    /\ \A a \in Agents : agent_status[a] = "SUCCESS"

Terminal(a) == pc[a] \in {"returned", "failed"}

\* C4: for every max_iterations in 1..20, an agent never issues more than
\* max_iterations generate_code calls nor more than max_iterations sandbox calls;
\* an agent that ended with every one of its generate_code calls answered by a
\* report classified RETRYABLE_FAILURE (one timer per such report) has failed with
\* the max-iterations error; and an agent that failed with that error has issued
\* exactly max_iterations calls of each kind
C4_ExactlyMaxIterationsCycles ==
    LET a == "agent_a"
        max == request.max_iterations
    IN  /\ gen_calls[a] <= max
        /\ sandbox_calls[a] <= max
        /\ (Terminal(a) /\ Len(timers[a]) = gen_calls[a]) =>
                result[a] = Failed(MaxIterationsReached)
        /\ result[a] = Failed(MaxIterationsReached) =>
                /\ gen_calls[a] = max
                /\ sandbox_calls[a] = max

\* an agent with max_iterations = 20 failed after 20 cycles
C4_Witness ==
    /\ request.max_iterations = MaxIterationsLimit
    /\ result["agent_a"] = Failed(MaxIterationsReached)
    /\ gen_calls["agent_a"] = MaxIterationsLimit
    /\ sandbox_calls["agent_a"] = MaxIterationsLimit

\* C5 (as claimed): a backoff timer is issued only when another iteration follows,
\* so no timer is pending in the iteration with current_iteration = max_iterations
\* and an agent that failed with the max-iterations error has issued exactly
\* max_iterations - 1 timers
C5_NoTimerAfterLastIteration ==
    LET a == "agent_a" IN
    /\ pc[a] = "sleep" => state[a][1].current_iteration < state[a][1].max_iterations
    /\ result[a] = Failed(MaxIterationsReached) =>
            Len(timers[a]) = request.max_iterations - 1

\* C6: the k-th timer of an agent, issued after the RETRYABLE_FAILURE of the
\* iteration with zero-based index k - 1, lasts exactly 2^(k-1) seconds, up to the
\* 20th (2^19 seconds): no ceiling, and the same in every run
C6_BackoffIsPowerOfTwo ==
    LET a == "agent_a" IN
    /\ \A k \in 1..Len(timers[a]) : timers[a][k] = 2 ^ (k - 1)
    /\ pc[a] = "sleep" => Len(timers[a]) = i[a] + 1

\* the timer between the 19th and the 20th iteration: 2^18 seconds
C6_Witness ==
    /\ request.max_iterations = MaxIterationsLimit
    /\ pc["agent_a"] = "sleep"
    /\ i["agent_a"] = MaxIterationsLimit - 2
    /\ timers["agent_a"][MaxIterationsLimit - 1] = 262144

\* current_iteration of agent a: the field of self._state, or of the AgentState
\* the workflow is about to receive
CurrentIteration(a) ==
    IF state[a] # <<>> THEN state[a][1].current_iteration
    ELSE agent_args[a][1].current_iteration

IterationStarted(a) ==
    /\ pc[a] \in {"start", "sleep"}
    /\ pc'[a] \in {"refine_prompt", "generate_code"}

C7_Range ==
    /\ CurrentIteration("agent_a") \in 0..request.max_iterations
    /\ pc["agent_a"] = "start" => CurrentIteration("agent_a") = 0

C7_Step ==
    /\ IterationStarted("agent_a") =>
            CurrentIteration("agent_a")' = CurrentIteration("agent_a") + 1
    /\ ~IterationStarted("agent_a") =>
            CurrentIteration("agent_a")' = CurrentIteration("agent_a")

\* C7: current_iteration is 0 until the first iteration starts, never exceeds
\* max_iterations, never decreases, and changes only when an iteration starts,
\* by exactly 1
C7_CurrentIterationMonotone == []C7_Range /\ [][C7_Step]_vars

\* the 20th iteration of an agent with max_iterations = 20 is running
C7_Witness ==
    /\ CurrentIteration("agent_a") = MaxIterationsLimit
    /\ pc["agent_a"] = "generate_code"

RollingBack == saga_status \in {"FAILED_AND_ROLLING_BACK", "ROLLED_BACK"}

C8_NeverSuccessAfterFailure ==
    failures # <<>> =>
        /\ saga_status # "SUCCESS"
        /\ final_output # <<>> => final_output[1].status # "SUCCESS"
        /\ saga_pc = "gather" => ENABLED SagaChildFailed /\ ~ENABLED SagaSuccess
        /\ saga_pc # "gather" => RollingBack

C8_SagaNextStep ==
    (failures # <<>> /\ saga_pc = "gather" /\ saga_pc' # "gather") =>
        saga_status' = "FAILED_AND_ROLLING_BACK"

\* C8: once a child workflow has failed, for whatever reason and whatever the other
\* child is doing, the saga can take its step to FAILED_AND_ROLLING_BACK at once
\* (it does not wait for the other child), that step is the only one execute can
\* take, it is eventually taken, and the status is never SUCCESS afterwards
C8_FailureStartsRollback ==
    /\ []C8_NeverSuccessAfterFailure
    /\ [][C8_SagaNextStep]_vars
    /\ (failures # <<>>) ~> RollingBack

\* the saga is rolling back after a configuration error of agent_b while agent_a
\* is still running
C8_Witness ==
    /\ saga_status = "FAILED_AND_ROLLING_BACK"
    /\ result["agent_b"] = Failed("generate_code: ValueError")
    /\ result["agent_a"] = Running
    /\ pc["agent_a"] = "run_tests_in_sandbox"

\* the agent awaits a parse_test_results call that raises at every attempt
Stuck(a) == pc[a] = "parse_test_results" /\ ~Validates(activity[a].args[1])

\* execute returned a ROLLED_BACK FinalOutput that carries the first child failure
ReturnedRolledBack ==
    /\ saga_pc = "done"
    /\ saga_status = "ROLLED_BACK"
    /\ final_output = Some(FinalOutput("ROLLED_BACK", result[Head(failures)].value,
                                       trace_id, None, None))
    /\ \A a \in Agents : Succeeded(a) => comp[a] \in {"succeeded", "failed"}

C9_FailureReported ==
    (failures # <<>> /\ saga_pc = "done") => ReturnedRolledBack

\* C9: after a child workflow has failed, unless some agent never ends, the saga
\* eventually has issued and collected the cleanup of every child that returned and
\* returns a ROLLED_BACK FinalOutput carrying the failure; it never returns
\* anything else, and so never stays in FAILED_AND_ROLLING_BACK
C9_FailureLeadsToRolledBack ==
    /\ []C9_FailureReported
    /\ (failures # <<>>) ~> (ReturnedRolledBack \/ \E a \in Agents : Stuck(a))

\* the saga returned ROLLED_BACK after the cleanup of agent_b, agent_a having failed
C9_Witness ==
    /\ ReturnedRolledBack
    /\ HasFailed("agent_a")
    /\ comp["agent_b"] = "succeeded"

AllIssuedResolved ==
    \A a \in Agents : comp_calls[a] > 0 => comp[a] \in {"succeeded", "failed"}

\* C10: once every cleanup call issued has resolved, with success or with failure,
\* the saga can set ROLLED_BACK and return; a failed cleanup leaves the cleanup
\* calls of the other children issued, and the FinalOutput is the same ROLLED_BACK
\* FinalOutput whatever the outcomes of the cleanup calls
C10_CompensationFailureTolerated ==
    /\ (saga_pc = "gather_compensations" /\ AllIssuedResolved) => ENABLED SagaCompensated
    /\ \A a \in Agents :
          (comp[a] = "failed" /\ saga_pc \in {"gather_compensations", "done"}) =>
              \A b \in Agents : Succeeded(b) => comp_calls[b] = 1
    /\ (saga_pc = "done" /\ \E a \in Agents : comp[a] # "none") =>
          /\ saga_status = "ROLLED_BACK"
          /\ final_output = Some(FinalOutput("ROLLED_BACK", cause[1], trace_id, None, None))

\* the saga returned ROLLED_BACK although the cleanup call of agent_a failed
C10_Witness ==
    /\ saga_pc = "done"
    /\ saga_status = "ROLLED_BACK"
    /\ comp["agent_a"] = "failed"

(* ---------------------------------------------------------------------- *)
(* Classification of sandbox reports                                       *)
(* ---------------------------------------------------------------------- *)

\* the report agent a is having parsed
AwaitedReport(a) == activity[a].args[1]

AwaitsParse(a) == pc[a] = "parse_test_results"

\* C11: a sandbox report that is empty or lacks required fields is classified
\* TERMINAL_FAILURE by parse_test_results, and the agent can then fail in that
\* iteration: the parse call on such a report returns to the agent.
C11_MalformedIsTerminal ==
    \A a \in Agents :
        AwaitsParse(a) /\ ~Validates(AwaitedReport(a))
            => /\ ParseOutcome(AwaitedReport(a)) = "TERMINAL_FAILURE"
               /\ ENABLED ParseTestResultsDone(a)

\* the agent has ended by raising: it issues nothing and changes nothing any more
FailedAgentIdle(a) ==
    HasFailed(a) =>
        /\ pc'[a] = pc[a] /\ result'[a] = result[a] /\ activity'[a] = NoCall
        /\ timers'[a] = timers[a]
        /\ gen_calls'[a] = gen_calls[a]
        /\ sandbox_calls'[a] = sandbox_calls[a]
        /\ state'[a] = state[a]

\* agent a is having parsed a report that validates and carries an error text
AwaitsErrorReport(a) ==
    /\ AwaitsParse(a)
    /\ Validates(AwaitedReport(a))
    /\ AwaitedReport(a).error # None /\ AwaitedReport(a).error # ""

C12_Classified ==
    \A a \in Agents :
        AwaitsErrorReport(a) => ParseOutcome(AwaitedReport(a)) = "TERMINAL_FAILURE"

C12_Step ==
    \A a \in Agents :
        /\ AwaitsErrorReport(a) /\ pc'[a] # pc[a]
              => /\ pc'[a] = "failed"
                 /\ result'[a] = Failed("Unrecoverable error in code or tests.")
                 /\ agent_status'[a] = "FAILED"
                 /\ state'[a] = state[a]
                 /\ timers'[a] = timers[a]
                 /\ gen_calls'[a] = gen_calls[a]
                 /\ sandbox_calls'[a] = sandbox_calls[a]
        /\ FailedAgentIdle(a)

\* C12: a report that has all required fields and a non-empty error is classified
\* TERMINAL_FAILURE whatever its summary holds; the agent's next step is to fail
\* in the same iteration, and from then on it issues no timer, no generation call
\* and no sandbox call, however many iterations remain.
C12_ErrorIsTerminal == []C12_Classified /\ [][C12_Step]_vars

\* an agent with iterations left has failed on a report whose summary counts failed
\* tests (so the report carried an error), without any timer
C12_Witness ==
    \E a \in Agents :
        /\ result[a] = Failed("Unrecoverable error in code or tests.")
        /\ Get(last_test_summary[a], "failed", 0) > 0
        /\ Get(last_test_summary[a], "passed", 0) > 0
        /\ timers[a] = <<>>
        /\ CurrentIteration(a) < state[a][1].max_iterations

\* agent a is having parsed a report that validates, has no error and counts
\* failed tests
AwaitsFailedReport(a) ==
    /\ AwaitsParse(a)
    /\ Validates(AwaitedReport(a))
    /\ AwaitedReport(a).error \in {None, ""}
    /\ Get(AwaitedReport(a).summary, "failed", 0) > 0

C13_Classified ==
    \A a \in Agents :
        AwaitsFailedReport(a) => ParseOutcome(AwaitedReport(a)) = "RETRYABLE_FAILURE"

C13_Step ==
    \A a \in Agents :
        /\ AwaitsFailedReport(a) /\ pc'[a] # pc[a]
              => /\ pc'[a] = "sleep"
                 /\ state'[a][1].test_errors = Some(AwaitedReport(a))
        /\ pc[a] = "sleep" /\ pc'[a] # pc[a] /\ i[a] + 1 < state[a][1].max_iterations
              => /\ pc'[a] = "refine_prompt"
                 /\ agent_status'[a] = "REFINING_PROMPT"
                 /\ activity'[a] = Call("refine_prompt", <<state'[a][1]>>)

\* C13: a report with no error and failed > 0 is classified RETRYABLE_FAILURE
\* whatever passed is; the agent stores the report as its test errors and, when
\* iterations remain, goes on after the backoff with a refine_prompt call on the
\* state that holds them.
C13_FailedTestsRefine == []C13_Classified /\ [][C13_Step]_vars

\* agent a is having parsed a report that validates, has no error, counts passed
\* tests and counts no failed test
AwaitsPassedReport(a) ==
    /\ AwaitsParse(a)
    /\ Validates(AwaitedReport(a))
    /\ AwaitedReport(a).error \in {None, ""}
    /\ Get(AwaitedReport(a).summary, "passed", 0) > 0
    /\ Get(AwaitedReport(a).summary, "failed", 0) = 0

\* the code under test: what the pending sandbox call was given is the code
\* generate_code returned in this iteration
C14_Sent ==
    \A a \in Agents :
        pc[a] = "run_tests_in_sandbox"
            => /\ activity[a].args[1] = generated_code[a]
               /\ state[a][1].current_iteration = i[a] + 1

C14_Classified ==
    \A a \in Agents :
        AwaitsPassedReport(a) => ParseOutcome(AwaitedReport(a)) = "PASSED"

C14_Step ==
    \A a \in Agents :
        /\ pc[a] = "generate_code" /\ pc'[a] = "run_tests_in_sandbox"
              => generated_code'[a] \in Codes
        /\ pc[a] = "run_tests_in_sandbox" /\ pc'[a] = "parse_test_results"
              => generated_code'[a] = generated_code[a]
        /\ AwaitsPassedReport(a) /\ pc'[a] # pc[a]
              => /\ pc'[a] = "returned"
                 /\ agent_status'[a] = "SUCCESS"
                 /\ result'[a] = Returned(generated_code[a])
                 /\ state'[a] = state[a]

\* C14: a report with no error, passed > 0 and no failed test is classified
\* PASSED; the agent's next step is to return, with label SUCCESS, the code that
\* generate_code returned in this iteration, which is the code the sandbox call of
\* this iteration was given.
C14_PassedReturnsCode == [](C14_Sent /\ C14_Classified) /\ [][C14_Step]_vars

\* an agent has succeeded in its second iteration
C14_Witness ==
    \E a \in Agents :
        /\ Succeeded(a)
        /\ agent_status[a] = "SUCCESS"
        /\ CurrentIteration(a) = 2
        /\ result[a].value = generated_code[a]
        /\ Get(last_test_summary[a], "passed", 0) > 0

(* ---------------------------------------------------------------------- *)
(* Failing activities                                                      *)
(* ---------------------------------------------------------------------- *)

\* os.getenv(model_endpoint_env_var) gives nothing for agent a
EndpointMissing(a) == EnvVarOf(a) \notin env

ConfigurationError == "generate_code: ValueError"

C15_Inv ==
    \A a \in Agents :
        EndpointMissing(a)
            => /\ activity[a].attempt <= 1
               /\ gen_calls[a] <= 1
               /\ sandbox_calls[a] = 0
               /\ timers[a] = <<>>
               /\ CurrentIteration(a) <= 1
               /\ ~Succeeded(a)
               /\ HasFailed(a) => result[a] = Failed(ConfigurationError)

C15_Step ==
    \A a \in Agents :
        /\ EndpointMissing(a) /\ pc[a] = "generate_code" /\ activity'[a] # activity[a]
              => pc'[a] = "failed" /\ result'[a] = Failed(ConfigurationError)
        /\ FailedAgentIdle(a)

\* C15: when the environment variable named by the agent's endpoint selector is
\* not set, the generate_code call is attempted once and its failure ends the
\* agent with the configuration error: the agent issues no sandbox call and no
\* timer, starts no second iteration and never succeeds.
C15_MissingEndpointFailsAtOnce == []C15_Inv /\ [][C15_Step]_vars

\* an agent with iterations left has failed on the configuration error
C15_Witness ==
    \E a \in Agents :
        /\ EndpointMissing(a)
        /\ result[a] = Failed(ConfigurationError)
        /\ gen_calls[a] = 1
        /\ state[a][1].max_iterations > 1

C16_Inv ==
    \A a \in Agents :
        /\ pc[a] = "generate_code" => activity[a].attempt \in 1..3
        /\ pc[a] = "run_tests_in_sandbox"
              => /\ activity[a].attempt \in 1..5
                 /\ activity[a].waits = SubSeq(<<5, 10, 20, 40>>, 1, activity[a].attempt - 1)

C16_Step ==
    \A a \in Agents :
        /\ pc[a] = "generate_code" /\ ~EndpointMissing(a) /\ activity'[a] # activity[a]
              => \/ pc'[a] = "run_tests_in_sandbox"
                 \/ /\ activity[a].attempt < 3
                    /\ pc'[a] = pc[a]
                    /\ activity'[a].attempt = activity[a].attempt + 1
                    /\ gen_calls'[a] = gen_calls[a]
                 \/ /\ activity[a].attempt = 3
                    /\ pc'[a] = "failed"
                    /\ result'[a].kind = "failed"
        /\ pc[a] = "run_tests_in_sandbox" /\ activity'[a] # activity[a]
              => \/ pc'[a] = "parse_test_results"
                 \/ /\ activity[a].attempt < 5
                    /\ pc'[a] = pc[a]
                    /\ activity'[a].attempt = activity[a].attempt + 1
                    /\ sandbox_calls'[a] = sandbox_calls[a]
                 \/ /\ activity[a].attempt = 5
                    /\ pc'[a] = "failed"
                    /\ result'[a].kind = "failed"
        /\ FailedAgentIdle(a)

\* C16: within one iteration a generate_code call whose attempts fail for another
\* reason than the configuration is attempted at most 3 times and a sandbox call at
\* most 5 times, with 5, 10, 20 and 40 seconds between the sandbox attempts; a
\* failure of the last attempt ends the agent as failed, and a failed agent starts
\* no further iteration.
C16_BoundedAttempts == []C16_Inv /\ [][C16_Step]_vars

\* an agent with iterations left has failed because its sandbox call ran out of
\* attempts
C16_Witness ==
    \E a \in Agents :
        /\ result[a] = Failed("run_tests_in_sandbox: attempts exhausted")
        /\ sandbox_calls[a] = 1
        /\ state[a][1].max_iterations > 1

(* ---------------------------------------------------------------------- *)
(* The trace id                                                            *)
(* ---------------------------------------------------------------------- *)

SagaStarted == saga_pc # "execute"

C17_Inv ==
    /\ ~SagaStarted => trace_id = ""
    /\ SagaStarted =>
          /\ trace_id \in TraceIds
          /\ \A a \in Agents :
                /\ agent_args[a][1].trace_id = trace_id
                /\ state[a] # <<>> => state[a][1].trace_id = trace_id
    /\ final_output # <<>> =>
          /\ final_output[1].status \in {"SUCCESS", "ROLLED_BACK"}
          /\ final_output[1].trace_id = trace_id

C17_Step ==
    /\ SagaStarted => trace_id' = trace_id
    /\ trace_id' # trace_id => saga_pc' = "gather"

\* C17: the saga's trace_id is empty until execute starts, is assigned in the
\* step that starts execute and never changes afterwards; the AgentState each
\* child is started with and the state each agent works on carry that value at
\* every moment, and so does the FinalOutput, SUCCESS or ROLLED_BACK.
C17_TraceIdAssignedOnce == []C17_Inv /\ [][C17_Step]_vars

\* a ROLLED_BACK FinalOutput was returned after both agents ran
C17_Witness ==
    /\ final_output # <<>>
    /\ final_output[1].status = "ROLLED_BACK"
    /\ final_output[1].trace_id = "uuid-2"
    /\ \A a \in Agents : state[a] # <<>> /\ state[a][1].trace_id = "uuid-2"

\* lines 141-147 and 159-165 of main_workflow.py: the cleanup call issued for a
CleanupCall(a) == Call("cleanup_successful_agent_artifacts", <<a>>)

\* the trace id a call is given among its arguments; None when it is given none
CallTraceId(call) ==
    IF call.name = "run_tests_in_sandbox" THEN call.args[3]
    ELSE IF call.name = "refine_prompt" THEN call.args[1].trace_id
    ELSE None

C18_Sandbox ==
    \A a \in Agents :
        pc[a] = "run_tests_in_sandbox" => CallTraceId(activity[a]) = trace_id

C18_Generation ==
    \A a \in Agents :
        pc[a] = "generate_code" => CallTraceId(activity[a]) = trace_id

C18_Compensation ==
    \A a \in Agents :
        comp[a] # "none" => CallTraceId(CleanupCall(a)) = trace_id

\* C18: every call issued on behalf of a saga (each generate_code call, each
\* sandbox call and each cleanup call) is given the trace id the saga captured
\* when it started.
C18_EveryCallCarriesTraceId == C18_Generation /\ C18_Sandbox /\ C18_Compensation

\* lines 99 and 105 of main_workflow.py: id=f"agent-a-{self._trace_id}"
ChildWorkflowId(a, tid) == <<a, tid>>

\* execute can start from the present state (the same InitialRequest, the same
\* empty history) and capture tid as its trace id
CanStartWith(tid) == ENABLED (SagaStart /\ trace_id' = tid)

\* C19: execute is deterministic under replay: two executions that start from
\* the same InitialRequest and history capture the same trace_id, and so start
\* their children under the same workflow ids.
C19_ReplayDeterministic ==
    \A t1 \in TraceIds, t2 \in TraceIds :
        CanStartWith(t1) /\ CanStartWith(t2)
            => /\ t1 = t2
               /\ \A a \in Agents : ChildWorkflowId(a, t1) = ChildWorkflowId(a, t2)

(* ---------------------------------------------------------------------- *)
(* Isolation of the two agents                                             *)
(* ---------------------------------------------------------------------- *)

\* what one AgentFSMWorkflow holds: self._state, self._status,
\* self._last_test_summary, and the position and locals of its execute
RunState(a) ==
    <<state[a], agent_status[a], last_test_summary[a], pc[a], i[a], generated_code[a],
      activity[a], result[a], gen_calls[a], sandbox_calls[a], timers[a]>>

C20_Step ==
    \A a \in Agents :
        AgentStep(a)
            => /\ \A b \in Agents \ {a} : RunState(b)' = RunState(b)
               /\ request' = request
               /\ trace_id' = trace_id
               /\ agent_args' = agent_args

\* C20: in every interleaving of the two agents, a step of one agent leaves the
\* other agent's run state (current_iteration, last generated code, last test
\* errors, label, last test summary, and its position), the InitialRequest and
\* the saga's trace_id as they were.
C20_AgentsIsolated == [][C20_Step]_vars

\* both agents are under way at different points of different iterations
C20_Witness ==
    \E a \in Agents, b \in Agents :
        /\ a # b
        /\ state[a] # <<>> /\ state[b] # <<>>
        /\ agent_status[a] = "REFINING_PROMPT" /\ state[a][1].current_iteration = 2
        /\ agent_status[b] = "PARSING_RESULTS" /\ state[b][1].current_iteration = 1
        /\ state[a][1].faulty_code # state[b][1].faulty_code

(* ---------------------------------------------------------------------- *)
(* Termination of the saga                                                 *)
(* ---------------------------------------------------------------------- *)

C21_Inv ==
    /\ \A a \in Agents : handle[a] => ParentClosePolicy(a) = "TERMINATE"
    /\ saga_pc = "terminated" => \A a \in Agents : ~ChildOpen(a)

C21_Step ==
    saga_pc = "terminated" => UNCHANGED agentVars

\* C21: both children are started with parent-close policy TERMINATE, so in every
\* state in which the saga has been terminated no child workflow is open, and no
\* agent takes a step after the termination.
C21_NoOrphans == []C21_Inv /\ [][C21_Step]_vars

\* the saga was terminated while one agent awaited the sandbox and the other a
\* refined prompt
C21_Witness ==
    /\ saga_pc = "terminated"
    /\ \E a \in Agents, b \in Agents :
          /\ result[a] = Terminated /\ agent_status[a] = "TESTING"
          /\ result[b] = Terminated /\ agent_status[b] = "REFINING_PROMPT"

(* ---------------------------------------------------------------------- *)
(* Status queries                                                          *)
(* ---------------------------------------------------------------------- *)

\* the outcomes of the two forwarded queries
ForwardOutcomes == [Agents -> BOOLEAN]

C22_Servable ==
    /\ ENABLED SagaGetStatus
    /\ \A oks \in ForwardOutcomes : MainWorkflowStatus(oks).outcome = "answered"
    /\ \A a \in Agents :
          /\ ENABLED AgentGetStatus(a)
          /\ AgentStatus(a).status = agent_status[a]

C22_Step ==
    /\ \A a \in Agents :
          AgentGetStatus(a)
              => UNCHANGED <<state, agent_status, last_test_summary, pc, i,
                             generated_code, activity, result, saga_status, handle,
                             trace_id, saga_pc, request>>
    /\ SagaGetStatus
          => UNCHANGED <<state, agent_status, last_test_summary, pc, i,
                         generated_code, activity, result, saga_status, handle,
                         trace_id, saga_pc, request>>

\* C22: the agent's get_status and the saga's get_status are answered in every
\* state (before the start, at every suspension point, after the end), and a
\* query leaves the agents' run state and labels, the saga's status, the child
\* handles and the trace id, and with them every later step, as they were.
C22_QueriesChangeNothing == []C22_Servable /\ [][C22_Step]_vars

\* get_status of an agent reports a summary while the agent sleeps before its
\* second iteration, and the saga has been queried in that state
C22_Witness ==
    \E a \in Agents :
        /\ pc[a] = "sleep"
        /\ AgentStatus(a).current_iteration = 1
        /\ AgentStatus(a).last_test_summary # {}
        /\ MainWorkflowStatus([b \in Agents |-> TRUE]).value.agent_status[a]
               = Some(AgentStatus(a))

\* what the saga's get_status must return when the forwarded queries end as oks
C23_Reply(oks) ==
    LET reply == MainWorkflowStatus(oks) IN
    /\ reply.outcome = "answered"
    /\ reply.value.status = saga_status
    /\ \A a \in Agents :
          reply.value.agent_status[a] =
              IF handle[a] /\ oks[a] THEN Some(AgentStatus(a)) ELSE <<>>

\* C23: the saga's get_status never fails because of an agent: for an agent not
\* yet started, or whose forwarded query raises, it returns the saga's status with
\* no snapshot for that agent, and still the snapshot of the other agent when
\* that one answers.
C23_QueryNeverFails == \A oks \in ForwardOutcomes : C23_Reply(oks)

\* agent_a has ended and its forwarded query raises while agent_b still runs and
\* answers
C23_Witness ==
    LET reply == MainWorkflowStatus([a \in Agents |-> a = "agent_b"]) IN
    /\ HasFailed("agent_a")
    /\ pc["agent_b"] = "run_tests_in_sandbox"
    /\ reply.outcome = "answered"
    /\ reply.value.agent_status["agent_a"] = <<>>
    /\ reply.value.agent_status["agent_b"] = Some(AgentStatus("agent_b"))

(* ---------------------------------------------------------------------- *)
(* Labels and prompts                                                      *)
(* ---------------------------------------------------------------------- *)

C24_Step ==
    \A a \in Agents :
        /\ IterationStarted(a) /\ i'[a] = 0
              => /\ pc'[a] = "generate_code"
                 /\ agent_status'[a] = "GENERATING_CODE"
                 /\ activity'[a].args[1] = request.functional_description
        /\ IterationStarted(a) /\ i'[a] > 0
              => /\ state[a][1].test_errors # <<>>
                 /\ pc'[a] = "refine_prompt"
                 /\ agent_status'[a] = "REFINING_PROMPT"
        /\ pc[a] = "refine_prompt" /\ pc'[a] = "generate_code"
              => activity'[a].args[1] =
                     <<"refined", request.functional_description,
                       state[a][1].faulty_code, state[a][1].test_errors>>

\* C24: the first iteration of an agent starts with label GENERATING_CODE and the
\* raw functional_description as its prompt; every later iteration, which follows
\* code that failed its tests, starts with label REFINING_PROMPT and a
\* refine_prompt call, whose prompt is built from the description, that code and
\* the stored report, whatever the code text is.
C24_RefineAfterFailedTests == [][C24_Step]_vars

\* the label changes of the state chain PENDING -> {GENERATING | REFINING} ->
\* TESTING -> PARSING -> {GENERATING | REFINING | SUCCEEDED | FAILED}
ChainLabelChanges ==
    {<<"PENDING", "GENERATING_CODE">>, <<"PENDING", "REFINING_PROMPT">>,
     <<"GENERATING_CODE", "TESTING">>, <<"REFINING_PROMPT", "TESTING">>,
     <<"TESTING", "PARSING_RESULTS">>,
     <<"PARSING_RESULTS", "GENERATING_CODE">>, <<"PARSING_RESULTS", "REFINING_PROMPT">>,
     <<"PARSING_RESULTS", "SUCCESS">>, <<"PARSING_RESULTS", "FAILED">>}

C25_Start == \A a \in Agents : pc[a] \in {"not_started", "start"} => agent_status[a] = "PENDING"

C25_ChainStep ==
    \A a \in Agents :
        agent_status'[a] # agent_status[a]
            => <<agent_status[a], agent_status'[a]>> \in ChainLabelChanges

\* C25 as stated: the label starts at PENDING and changes only along the chain;
\* SUCCESS and FAILED have no change leaving them.
C25_LabelFollowsChain == []C25_Start /\ [][C25_ChainStep]_vars

C25_AmendedStep ==
    \A a \in Agents :
        agent_status'[a] # agent_status[a]
            => <<agent_status[a], agent_status'[a]>>
                  \in ChainLabelChanges \cup {<<"REFINING_PROMPT", "GENERATING_CODE">>}

\* C25, amended: the label starts at PENDING and changes only along the chain or
\* from REFINING to GENERATING (the refined prompt is then sent to the generator);
\* SUCCESS and FAILED have no change leaving them.
C25_LabelFollowsChainOrRefines == []C25_Start /\ [][C25_AmendedStep]_vars

\* an agent generates code from a refined prompt in its second iteration
C25_Witness ==
    \E a \in Agents :
        /\ pc[a] = "generate_code"
        /\ agent_status[a] = "GENERATING_CODE"
        /\ i[a] = 1
        /\ state[a][1].faulty_code \notin {None, ""}

(* ---------------------------------------------------------------------- *)
(* The FinalOutput                                                         *)
(* ---------------------------------------------------------------------- *)

\* C26: a FinalOutput holds code_a or code_b only when its status is SUCCESS;
\* every ROLLED_BACK FinalOutput has both absent, also when one of the agents
\* had returned its code before the rollback.
C26_CodeOnlyOnSuccess ==
    final_output # <<>> =>
        /\ final_output[1].status = "ROLLED_BACK"
              => final_output[1].code_a = None /\ final_output[1].code_b = None
        /\ final_output[1].code_a # None \/ final_output[1].code_b # None
              => final_output[1].status = "SUCCESS"

\* a ROLLED_BACK FinalOutput was returned although one agent had returned code
C26_Witness ==
    /\ final_output # <<>>
    /\ final_output[1].status = "ROLLED_BACK"
    /\ \E a \in Agents : Succeeded(a) /\ result[a].value = "code-x"

\* C27: every ROLLED_BACK FinalOutput has as its message the reason of the first
\* child failure of the run, also when both agents have failed, and carries the
\* saga's trace id.
C27_RolledBackCarriesReason ==
    (final_output # <<>> /\ final_output[1].status = "ROLLED_BACK") =>
        /\ failures # <<>>
        /\ result[Head(failures)].kind = "failed"
        /\ final_output[1].message = result[Head(failures)].value
        /\ final_output[1].trace_id = trace_id
        /\ trace_id \in TraceIds

\* a ROLLED_BACK FinalOutput was returned after both agents failed, for different
\* reasons
C27_Witness ==
    /\ final_output # <<>>
    /\ final_output[1].status = "ROLLED_BACK"
    /\ Len(failures) = 2
    /\ result[failures[1]].value # result[failures[2]].value

\* C30: whenever an agent's run has ended in failure, by whichever path, the label
\* the agent holds and its get_status reports is FAILED.
C30_FailedAgentLabelledFailed ==
    \A a \in Agents :
        HasFailed(a) => agent_status[a] = "FAILED" /\ AgentStatus(a).status = "FAILED"

(* ---------------------------------------------------------------------- *)
(* The cleanup activity                                                    *)
(* ---------------------------------------------------------------------- *)

\* what can be observed of the cleanup for a: the stores and how the run ended
CleanupObserved(a) == <<artifacts, cleanup_result[a]>>

C28_Inv ==
    \A a \in Agents : cleanup_result[a] \in {"none", "returned"}

C28_Step ==
    \A a \in Agents :
        (cleanup_runs[a] >= 1 /\ cleanup_runs'[a] = cleanup_runs[a] + 1)
            => CleanupObserved(a)' = CleanupObserved(a)

\* C28: for every agent id, a run of cleanup_successful_agent_artifacts that
\* follows an earlier run leaves the stores and the result as the earlier run
\* left them, and no run raises.
C28_CleanupIdempotent == []C28_Inv /\ [][C28_Step]_vars

\* the cleanup for an agent whose artifacts are stored has run twice
C28_Witness ==
    \E a \in Agents :
        /\ cleanup_runs[a] = 2
        /\ cleanup_result[a] = "returned"
        /\ a \in artifacts

(* ---------------------------------------------------------------------- *)
(* The sandbox workspace                                                   *)
(* ---------------------------------------------------------------------- *)

\* the archive holds a member whose resolved path lies outside the workspace
ArchiveEscapes == \E k \in 1..Len(archive) : Resolved(archive[k]).outside

\* C29: an archive with a member whose resolved path lies outside the workspace
\* directory is rejected (the preparation raises), and in no state has a file
\* been written outside that directory.
C29_NoWriteOutsideWorkspace ==
    /\ outside = {}
    /\ ArchiveEscapes => sandbox_pc # "prepared"

(* ---------------------------------------------------------------------- *)
(* The saga while one child has failed and the other still runs           *)
(* ---------------------------------------------------------------------- *)

\* the saga has caught the failure and awaits the result of a, which still runs
AwaitsRunningChild(a) ==
    /\ saga_status = "FAILED_AND_ROLLING_BACK"
    /\ saga_pc = "result_" \o a
    /\ ChildOpen(a)

C31_Inv ==
    /\ \A a \in Agents :
          AwaitsRunningChild(a) => ~ENABLED SagaChildResult(a) /\ ENABLED AgentStep(a)
    /\ saga_status = "ROLLED_BACK" =>
          \A a \in Agents :
              /\ Terminal(a)
              /\ Succeeded(a) => comp[a] # "none" /\ \E k \in 1..Len(compensations) :
                                                        compensations[k] = a

C31_Step ==
    /\ (RollingBack' /\ saga_pc' # saga_pc) => UNCHANGED agentVars
    /\ \A a \in Agents :
          (RollingBack /\ ChildOpen(a)) => result'[a].kind \in {"running", "returned", "failed"}
    /\ \A a \in Agents :
          (saga_status' = "ROLLED_BACK" /\ saga_status # "ROLLED_BACK") =>
              (Succeeded(a) => comp[a] # "none" \/ comp'[a] = "issued")

Suspended(a) ==
    pc[a] \in {"refine_prompt", "generate_code", "run_tests_in_sandbox",
               "parse_test_results", "sleep"}

\* C32 (as claimed): an agent whose execute is suspended awaits the generate_code
\* call, the sandbox call or the backoff timer and nothing else: it is never
\* suspended in the refinement step or in the parsing of the report
C32_SuspendsOnlyAtThreePoints ==
    \A a \in Agents :
        Suspended(a) =>
            \/ pc[a] = "sleep" /\ activity[a] = NoCall
            \/ activity[a].name \in {"generate_code", "run_tests_in_sandbox"}

(* ---------------------------------------------------------------------- *)
(* The path of the saga status                                             *)
(* ---------------------------------------------------------------------- *)

\* the changes of self._status that execute makes: lines 64, 114, 126 and 177
SagaStatusEdges ==
    {<<"PENDING", "RUNNING">>,
     <<"RUNNING", "SUCCESS">>,
     <<"RUNNING", "FAILED_AND_ROLLING_BACK">>,
     <<"FAILED_AND_ROLLING_BACK", "ROLLED_BACK">>}

C33_Inv ==
    /\ saga_status \in {"PENDING", "RUNNING", "SUCCESS", "FAILED_AND_ROLLING_BACK",
                        "ROLLED_BACK"}
    /\ saga_pc = "execute" => saga_status = "PENDING"
    /\ saga_status = "PENDING" => saga_pc \in {"execute", "terminated"}
    /\ saga_status \in {"SUCCESS", "ROLLED_BACK"} <=> saga_pc = "done"
    /\ saga_status = "SUCCESS" => cause = <<>>
    /\ saga_status = "ROLLED_BACK" => cause # <<>>

C33_Step ==
    /\ saga_status' # saga_status => <<saga_status, saga_status'>> \in SagaStatusEdges
    /\ saga_status \in {"SUCCESS", "ROLLED_BACK"} => saga_status' = saga_status
    /\ saga_status' = "ROLLED_BACK" =>
          saga_status \in {"FAILED_AND_ROLLING_BACK", "ROLLED_BACK"}
    /\ saga_status = "FAILED_AND_ROLLING_BACK" => saga_status' # "SUCCESS"

\* C33: the saga status starts at PENDING and changes only along PENDING ->
\* RUNNING -> SUCCESS or PENDING -> RUNNING -> FAILED_AND_ROLLING_BACK ->
\* ROLLED_BACK: SUCCESS and ROLLED_BACK are never left, ROLLED_BACK is entered
\* only from FAILED_AND_ROLLING_BACK, and SUCCESS never follows
\* FAILED_AND_ROLLING_BACK (the caught failure is set exactly on that path)
C33_SagaStatusPath == (saga_status = "PENDING") /\ []C33_Inv /\ [][C33_Step]_vars

\* the saga went the whole failure path: ROLLED_BACK after the cleanup of agent_b
C33_Witness ==
    /\ saga_status = "ROLLED_BACK"
    /\ cause # <<>>
    /\ compensations = <<"agent_b">>
    /\ comp["agent_b"] = "succeeded"

(* ---------------------------------------------------------------------- *)
(* Termination of an agent                                                 *)
(* ---------------------------------------------------------------------- *)

\* C34 (as claimed): an agent never starts more than max_iterations iterations,
\* and under an engine that resolves every activity attempt and every timer its
\* run eventually ends, by returning or by failing, whatever the collaborators
\* answer
C34_AgentTerminates ==
    /\ [](CurrentIteration("agent_a") <= request.max_iterations)
    /\ <>Terminal("agent_a")

(* ---------------------------------------------------------------------- *)
(* How many cleanup calls a run issues                                     *)
(* ---------------------------------------------------------------------- *)

\* C35: a run of the saga issues at most one cleanup call in all: a call is issued
\* only while rolling back, for a child that returned while the other child
\* failed, so never for both agents
C35_AtMostOneCompensation ==
    /\ comp_calls["agent_a"] + comp_calls["agent_b"] <= 1
    /\ Len(compensations) <= 1
    /\ \A a \in Agents :
          comp_calls[a] > 0 =>
              /\ RollingBack
              /\ Succeeded(a)
              /\ \A b \in Agents \ {a} : HasFailed(b) /\ comp_calls[b] = 0 /\ comp[b] = "none"

\* the one cleanup call of the run, for agent_b, is issued and the saga awaits it
C35_Witness ==
    /\ saga_pc = "gather_compensations"
    /\ comp = [a \in Agents |-> IF a = "agent_b" THEN "issued" ELSE "none"]
    /\ comp_calls["agent_b"] = 1

(* ---------------------------------------------------------------------- *)
(* Reports of a run without any test outcome                               *)
(* ---------------------------------------------------------------------- *)

\* agent a is having parsed a report that validates, has no error field and
\* counts neither a passed nor a failed test
AwaitsNoTestsReport(a) ==
    /\ AwaitsParse(a)
    /\ Validates(AwaitedReport(a))
    /\ AwaitedReport(a).error = None
    /\ Get(AwaitedReport(a).summary, "passed", 0) = 0
    /\ Get(AwaitedReport(a).summary, "failed", 0) = 0

C36_Classified ==
    \A a \in Agents :
        AwaitsNoTestsReport(a) =>
            /\ ParseOutcome(AwaitedReport(a)) = "TERMINAL_FAILURE"
            /\ ENABLED ParseTestResultsDone(a)

C36_Step ==
    \A a \in Agents :
        AwaitsNoTestsReport(a) /\ pc'[a] # pc[a]
            => /\ pc'[a] = "failed"
               /\ result'[a] = Failed("Unrecoverable error in code or tests.")
               /\ agent_status'[a] = "FAILED"
               /\ timers'[a] = timers[a]
               /\ gen_calls'[a] = gen_calls[a]

\* C36: a report that validates, has no error field and whose summary counts
\* neither a passed nor a failed test (both zero, one or both absent, or the
\* summary empty) is classified TERMINAL_FAILURE; the agent's next step is to fail
\* in that iteration, with no timer and no further generation call
C36_NoTestsIsTerminal == []C36_Classified /\ [][C36_Step]_vars

\* an agent with an iteration left has failed in its first iteration on a report
\* with an empty summary
C36_Witness ==
    /\ result["agent_a"] = Failed("Unrecoverable error in code or tests.")
    /\ last_test_summary["agent_a"] = {}
    /\ state["agent_a"][1].current_iteration = 1
    /\ state["agent_a"][1].max_iterations = 2
    /\ timers["agent_a"] = <<>>

(* ---------------------------------------------------------------------- *)
(* What _run_sync leaves behind                                            *)
(* ---------------------------------------------------------------------- *)

\* _run_sync has returned its report or raised
RunSyncEnded == sandbox_pc \in {"returned", "failed"}

\* C37 (as claimed): on every path, once _run_sync has returned or raised, the
\* temporary directory is deleted and no container of the run is left at the
\* daemon
C37_NothingLeftBehind ==
    RunSyncEnded =>
        /\ temp_dir = "deleted"
        /\ containers \in {"none", "removed"}

====
